---- MODULE Spec2Model ----
(***************************************************************************)
(* A model of the bgpsimulator simulation engine: per-AS policies (local   *)
(* RIB, receive queue, validity composition, Gao-Rexford decision          *)
(* procedure, export), the rank-ordered propagation schedule, and the      *)
(* data-plane traceback.                                                   *)
(*                                                                         *)
(* Specifications:                                                         *)
(*   Spec      one trial: seeding, then propagation rounds                 *)
(*   SpecGR    the Gao-Rexford decision procedure on drawn inputs          *)
(*   SpecValid Policy.valid_ann on drawn inputs                            *)
(*   SpecDP    the data-plane traceback on drawn RIB configurations        *)
(*   SpecDPFair  SpecDP with the fairness of a running interpreter         *)
(*   SpecOpen  one AS receiving whatever its neighbors may send            *)
(*   SpecSetup ASGraphUtils.add_extra_setup on drawn graph data            *)
(*   SpecSetupFair  SpecSetup with the fairness of a running interpreter   *)
(*   SpecAnn   Announcement.__init__ on drawn arguments                    *)
(*   SpecExt   one call of a policy extension's valid_ann on drawn inputs  *)
(*   SpecLeak  AccidentalRouteLeak on a chain of three ASes                *)
(*   SpecTrivial  one round of plain BGP, then the data-plane outcomes     *)
(*   SpecCache get_most_specific_ann with the shared longest-prefix cache  *)
(*   SpecRank  one trial with the ranks of assign_as_propagation_rank       *)
(***************************************************************************)
EXTENDS Integers, Sequences, FiniteSets, TLC

VARIABLES
    \* ---- one trial (Spec) ----
    as_graph,    \* ASGraph.as_dict: asn -> [peer_asns, provider_asns, customer_asns]
    trial,       \* number of trials run on the graph before the current one
    settings,    \* Policy.settings: asn -> set of enabled Settings
    roas,        \* RouteValidator: the ROAs of the scenario
    local_rib,   \* Policy.local_rib: asn -> (prefix -> Announcement or None)
    recv_q,      \* Policy.recv_q: asn -> (prefix -> sequence of Announcements)
    sweep,       \* position of the engine: "seed", "up", "peer", "down", "round_done"
    rank,        \* index into propagation_ranks of the rank being handled
    stage,       \* "drain" or "send" inside a sweep
    pending,     \* ASes of the current step that have not run yet
    round,       \* propagation_round of the current engine.run
    err,         \* the exception that ended the trial, or "none"
    cmpLog,      \* the Gao-Rexford comparisons made by the last process_incoming_anns
    rejLog,      \* the announcements valid_ann rejected in the last process_incoming_anns
    \* ---- pure-function harnesses ----
    gr,          \* SpecGR: inputs and results of the decision procedure
    va,          \* SpecValid: inputs and result of valid_ann
    \* ---- data-plane traceback (SpecDP) ----
    dp,          \* DataPlanePacketPropagator: configuration, outcomes, call stack
    \* ---- graph setup (SpecSetup) ----
    as_graph_json, \* graph data under ASGraphUtils.add_extra_setup, and its call stack
    \* ---- single calls (SpecAnn, SpecExt) ----
    call,        \* one call of a constructor or of a policy check: arguments and result
    \* ---- longest-prefix lookups (SpecCache) ----
    most_specific_prefix_cache \* Policy.most_specific_prefix_cache, shared by all policies

propVars == <<as_graph, trial, settings, roas, local_rib, recv_q, sweep, rank, stage, pending,
              round, err, cmpLog, rejLog>>
vars == <<as_graph, trial, settings, roas, local_rib, recv_q, sweep, rank, stage, pending,
          round, err, cmpLog, rejLog, gr, va, dp, as_graph_json, call, most_specific_prefix_cache>>

-----------------------------------------------------------------------------
(* Values *)

\* Python's None
None == [none |-> TRUE]

\* a raised exception, as the result of a function
Raised(name) == [raised |-> name]

\* Relationships (IntEnum): higher value = higher priority
PROVIDERS == 1
PEERS == 2
CUSTOMERS == 3
ORIGIN == 4
UNKNOWN == 5

Relationships == {PROVIDERS, PEERS, CUSTOMERS, ORIGIN, UNKNOWN}

Min(a, b) == IF a <= b THEN a ELSE b

\* elements of a sequence (`x in as_path`)
Elems(s) == {s[i] : i \in 1..Len(s)}

\* s[1:] of Python
Tail1(s) == IF Len(s) = 0 THEN <<>> ELSE Tail(s)

\* all sequences over S of length lo..hi
SeqsOf(S, lo, hi) == UNION {[1..n -> S] : n \in lo..hi}

\* CommonPrefixes: the prefix and its subprefix
PREFIX == "1.2.0.0/16"
SUBPREFIX == "1.2.3.0/24"
Prefixes == {PREFIX, SUBPREFIX}

\* Announcement.__init__: `next_hop_asn or as_path[-1]`.  A next_hop_asn that is
\* not given (None) is falsy like 0, and is written 0 here; only_to_customers,
\* None unless given and only tested for truth, is 0 while unset.
Announcement(prefix, as_path, next_hop_asn, recv_relationship) ==
    [prefix |-> prefix,
     as_path |-> as_path,
     next_hop_asn |-> IF next_hop_asn = 0
                      THEN as_path[Len(as_path)] ELSE next_hop_asn,
     recv_relationship |-> recv_relationship,
     only_to_customers |-> 0,
     rovpp_blackhole |-> FALSE]

\* Announcement.copy with as_path and recv_relationship overridden
CopyPathRel(ann, as_path, recv_relationship) ==
    [ann EXCEPT !.as_path = as_path, !.recv_relationship = recv_relationship]

\* mutant of the copy made when sending: the next hop is not rewritten
CopyNextHop_Keep(ann, next_hop_asn) ==
    ann

\* Announcement.copy with next_hop_asn overridden
CopyNextHop(ann, next_hop_asn) ==
    [ann EXCEPT !.next_hop_asn = next_hop_asn]

-----------------------------------------------------------------------------
(* Gao-Rexford decision procedure (Policy) *)

\* mutant of _get_best_ann_by_local_pref: the lower recv_relationship value wins
_get_best_ann_by_local_pref_LowerWins(current_ann, new_ann) ==
    IF current_ann.recv_relationship < new_ann.recv_relationship THEN current_ann
    ELSE IF current_ann.recv_relationship > new_ann.recv_relationship THEN new_ann
    ELSE None

\* _get_best_ann_by_local_pref: higher recv_relationship value wins, None on a tie
_get_best_ann_by_local_pref(current_ann, new_ann) ==
    IF current_ann.recv_relationship > new_ann.recv_relationship THEN current_ann
    ELSE IF current_ann.recv_relationship < new_ann.recv_relationship THEN new_ann
    ELSE None

\* mutant of _get_best_ann_by_as_path: the longer path wins
_get_best_ann_by_as_path_LongerWins(current_ann, new_ann) ==
    IF Len(current_ann.as_path) > Len(new_ann.as_path) THEN current_ann
    ELSE IF Len(current_ann.as_path) < Len(new_ann.as_path) THEN new_ann
    ELSE None

\* _get_best_ann_by_as_path: shorter path wins, None on a tie
_get_best_ann_by_as_path(current_ann, new_ann) ==
    IF Len(current_ann.as_path) < Len(new_ann.as_path) THEN current_ann
    ELSE IF Len(current_ann.as_path) > Len(new_ann.as_path) THEN new_ann
    ELSE None

\* the 0-based index min(len(as_path), 1) used by the tiebreaker
NeighborIndex(as_path) == Min(Len(as_path), 1)

\* Python's as_path[i] succeeds only for i < len(as_path)
IndexInRange(as_path, i) == i < Len(as_path)

\* a tiebreaker that never looks at the neighbor ASNs: the first to arrive stays
Tiebreaker_KeepsCurrent(current_ann, new_ann) == current_ann

\* mutant of the tiebreaker: equal neighbor ASNs choose nothing
Tiebreaker_NoChoiceOnEqual(current_ann, new_ann) ==
    LET ci == NeighborIndex(current_ann.as_path)
        ni == NeighborIndex(new_ann.as_path)
    IN  IF ~IndexInRange(current_ann.as_path, ci) \/ ~IndexInRange(new_ann.as_path, ni)
        THEN Raised("IndexError")
        ELSE IF current_ann.as_path[ci + 1] < new_ann.as_path[ni + 1]
        THEN current_ann
        ELSE IF current_ann.as_path[ci + 1] > new_ann.as_path[ni + 1]
        THEN new_ann
        ELSE None

\* _get_best_ann_by_lowest_neighbor_asn_tiebreaker: IndexError when either
\* subscript is out of range, else the announcement with the lower neighbor ASN
_get_best_ann_by_lowest_neighbor_asn_tiebreaker(current_ann, new_ann) ==
    LET ci == NeighborIndex(current_ann.as_path)
        ni == NeighborIndex(new_ann.as_path)
    IN  IF ~IndexInRange(current_ann.as_path, ci) \/ ~IndexInRange(new_ann.as_path, ni)
        THEN Raised("IndexError")
        ELSE IF current_ann.as_path[ci + 1] <= new_ann.as_path[ni + 1]
        THEN current_ann
        ELSE new_ann

\* the BGPSEC step of the `or` chain: False when BGPSEC is disabled, else what
\* BGPSec.get_best_ann_by_bgpsec returns ("current", "new" or "none": its
\* verdict, given as bgpsec_pick)
BGPSecStep(bgpsec_enabled, bgpsec_pick, current_ann, new_ann) ==
    IF ~bgpsec_enabled THEN None
    ELSE IF bgpsec_pick = "current" THEN current_ann
    ELSE IF bgpsec_pick = "new" THEN new_ann
    ELSE None

\* mutant of the decision procedure: path length is compared before the
\* relationship
GaoRexford_PathBeforePref(bgpsec_enabled, bgpsec_pick, current_ann, new_ann) ==
    LET first == IF current_ann = None THEN new_ann ELSE None
        pref == _get_best_ann_by_local_pref(current_ann, new_ann)
        path == _get_best_ann_by_as_path(current_ann, new_ann)
        sec == BGPSecStep(bgpsec_enabled, bgpsec_pick, current_ann, new_ann)
        tie == _get_best_ann_by_lowest_neighbor_asn_tiebreaker(current_ann, new_ann)
        final_ann == IF first # None THEN first
                     ELSE IF path # None THEN path
                     ELSE IF pref # None THEN pref
                     ELSE IF sec # None THEN sec
                     ELSE tie
    IN  IF final_ann # None THEN final_ann ELSE Raised("GaoRexfordError")

\* mutant of the decision procedure: the announcement received last is chosen
GaoRexford_NewAlwaysWins(bgpsec_enabled, bgpsec_pick, current_ann, new_ann) ==
    new_ann

\* _get_best_ann_by_gao_rexford: the `or` chain, then GaoRexfordError when
\* nothing was chosen.  Python evaluates the chain left to right and stops at
\* the first truthy value; an Announcement is truthy, None and False are not.
_get_best_ann_by_gao_rexford(bgpsec_enabled, bgpsec_pick, current_ann, new_ann) ==
    LET first == IF current_ann = None THEN new_ann ELSE None
        pref == _get_best_ann_by_local_pref(current_ann, new_ann)
        path == _get_best_ann_by_as_path(current_ann, new_ann)
        sec == BGPSecStep(bgpsec_enabled, bgpsec_pick, current_ann, new_ann)
        tie == _get_best_ann_by_lowest_neighbor_asn_tiebreaker(current_ann, new_ann)
        final_ann == IF first # None THEN first
                     ELSE IF pref # None THEN pref
                     ELSE IF path # None THEN path
                     ELSE IF sec # None THEN sec
                     ELSE tie
    IN  IF final_ann # None THEN final_ann ELSE Raised("GaoRexfordError")

-----------------------------------------------------------------------------
(* Validity composition (Policy.valid_ann) *)

\* the Settings read by valid_ann
ValiditySettings ==
    {"ASPA", "ASRA", "ASPA_W_N", "AS_PATH_EDGE_FILTER", "ENFORCE_FIRST_AS",
     "ONLY_TO_CUSTOMERS", "ROV", "ROVPP_V1_LITE", "ROVPP_V2_LITE", "ROVPP_V2I_LITE",
     "PEER_ROV", "PATH_END", "PEERLOCK_LITE", "BGP_I_SEC", "BGP_I_SEC_TRANSITIVE",
     "PROVIDER_CONE_ID"}

\* the extension classes whose valid_ann is called by Policy.valid_ann
ExtChecks ==
    {"ASPA", "ASPAwN", "ASRA", "ASPathEdgeFilter", "EnforceFirstAS",
     "OnlyToCustomers", "ROV", "PeerROV", "PathEnd", "PeerLockLite",
     "BGPiSecTransitive", "ProviderConeID"}

\* mutant of BGP.valid_ann: the loop-prevention conjunct is missing
BGP_valid_ann_NoLoopCheck(asn, ann, from_rel) ==
    0 \notin Elems(ann.as_path)

\* mutant of BGP.valid_ann: the AS 0 conjunct is missing
BGP_valid_ann_NoZeroCheck(asn, ann, from_rel) ==
    asn \notin Elems(ann.as_path)

\* BGP.valid_ann: loop prevention, and no AS 0
BGP_valid_ann(asn, ann, from_rel) ==
    asn \notin Elems(ann.as_path) /\ 0 \notin Elems(ann.as_path)

\* mutant of valid_ann: the plain ASPA check runs whenever ASPA is enabled
valid_ann_AspaWheneverEnabled(asn, S, ext, ann, from_rel) ==
    IF ~BGP_valid_ann(asn, ann, from_rel) THEN FALSE
    ELSE IF "ASPA" \in S /\ ~ext["ASPA"]
    THEN FALSE
    ELSE IF "ASPA_W_N" \in S /\ "ASRA" \notin S /\ ~ext["ASPAwN"] THEN FALSE
    ELSE IF "ASRA" \in S /\ ~ext["ASRA"] THEN FALSE
    ELSE IF "AS_PATH_EDGE_FILTER" \in S /\ ~ext["ASPathEdgeFilter"] THEN FALSE
    ELSE IF "ENFORCE_FIRST_AS" \in S /\ ~ext["EnforceFirstAS"] THEN FALSE
    ELSE IF "ONLY_TO_CUSTOMERS" \in S /\ ~ext["OnlyToCustomers"] THEN FALSE
    ELSE IF ("ROV" \in S \/ "ROVPP_V1_LITE" \in S \/ "ROVPP_V2_LITE" \in S
             \/ "ROVPP_V2I_LITE" \in S) /\ ~ext["ROV"] THEN FALSE
    ELSE IF "PEER_ROV" \in S /\ ~ext["PeerROV"] THEN FALSE
    ELSE IF "PATH_END" \in S /\ ~ext["PathEnd"] THEN FALSE
    ELSE IF "PEERLOCK_LITE" \in S /\ ~ext["PeerLockLite"] THEN FALSE
    ELSE IF ("BGP_I_SEC" \in S \/ "BGP_I_SEC_TRANSITIVE" \in S)
            /\ ~ext["BGPiSecTransitive"] THEN FALSE
    ELSE IF "PROVIDER_CONE_ID" \in S /\ ~ext["ProviderConeID"] THEN FALSE
    ELSE TRUE

\* Policy.valid_ann for the policy of AS asn with the enabled settings S.
\* ext[c] is what extension class c's valid_ann returns for this announcement.
valid_ann(asn, S, ext, ann, from_rel) ==
    IF ~BGP_valid_ann(asn, ann, from_rel) THEN FALSE
    ELSE IF "ASPA" \in S /\ "ASRA" \notin S /\ "ASPA_W_N" \notin S /\ ~ext["ASPA"]
    THEN FALSE
    ELSE IF "ASPA_W_N" \in S /\ "ASRA" \notin S /\ ~ext["ASPAwN"] THEN FALSE
    ELSE IF "ASRA" \in S /\ ~ext["ASRA"] THEN FALSE
    ELSE IF "AS_PATH_EDGE_FILTER" \in S /\ ~ext["ASPathEdgeFilter"] THEN FALSE
    ELSE IF "ENFORCE_FIRST_AS" \in S /\ ~ext["EnforceFirstAS"] THEN FALSE
    ELSE IF "ONLY_TO_CUSTOMERS" \in S /\ ~ext["OnlyToCustomers"] THEN FALSE
    ELSE IF ("ROV" \in S \/ "ROVPP_V1_LITE" \in S \/ "ROVPP_V2_LITE" \in S
             \/ "ROVPP_V2I_LITE" \in S) /\ ~ext["ROV"] THEN FALSE
    ELSE IF "PEER_ROV" \in S /\ ~ext["PeerROV"] THEN FALSE
    ELSE IF "PATH_END" \in S /\ ~ext["PathEnd"] THEN FALSE
    ELSE IF "PEERLOCK_LITE" \in S /\ ~ext["PeerLockLite"] THEN FALSE
    ELSE IF ("BGP_I_SEC" \in S \/ "BGP_I_SEC_TRANSITIVE" \in S)
            /\ ~ext["BGPiSecTransitive"] THEN FALSE
    ELSE IF "PROVIDER_CONE_ID" \in S /\ ~ext["ProviderConeID"] THEN FALSE
    ELSE TRUE

\* every extension check passes
AllPass == [c \in ExtChecks |-> TRUE]

-----------------------------------------------------------------------------
(* Route validator and ROV *)

ROA(prefix, origin, max_length) ==
    [prefix |-> prefix, origin |-> origin, max_length |-> max_length]

\* Prefix.prefixlen of the two prefixes
PrefixLen(prefix) == IF prefix = PREFIX THEN 16 ELSE 24

\* roa_prefix.supernet_of(prefix): 1.2.0.0/16 covers both prefixes, 1.2.3.0/24
\* only itself
Covers(roa_prefix, prefix) == roa_prefix = PREFIX \/ roa_prefix = prefix

\* ROAValidity and ROARouted
ROAValidities == {"VALID", "UNKNOWN", "INVALID_LENGTH", "INVALID_ORIGIN", "INVALID_BOTH"}

\* RouteValidator.get_roa_outcome(prefix, origin) over the ROAs R
get_roa_outcome(R, prefix, origin) ==
    LET covering == {r \in R : Covers(r.prefix, prefix)}
        length_ok(r) == PrefixLen(prefix) <= r.max_length
        origin_ok(r) == r.origin = origin
        validity ==
            IF covering = {} THEN "UNKNOWN"
            ELSE IF \E r \in covering : length_ok(r) /\ origin_ok(r) THEN "VALID"
            ELSE IF \E r \in covering : origin_ok(r) THEN "INVALID_LENGTH"
            ELSE IF \E r \in covering : length_ok(r) THEN "INVALID_ORIGIN"
            ELSE "INVALID_BOTH"
        routed ==
            IF covering = {} THEN "UNKNOWN"
            ELSE IF \A r \in covering : r.origin = 0 THEN "NON_ROUTED"
            ELSE "ROUTED"
    IN  <<validity, routed>>

\* ROAValidity.is_invalid
is_invalid(roa_validity) ==
    roa_validity \in {"INVALID_LENGTH", "INVALID_ORIGIN", "INVALID_BOTH"}

\* Announcement.origin
origin(ann) == ann.as_path[Len(ann.as_path)]

\* mutant of ROV.valid_ann: nothing is rejected
ROV_valid_ann_AcceptsAll(R, ann) == TRUE

\* ROV.valid_ann
ROV_valid_ann(R, ann) ==
    ~is_invalid(get_roa_outcome(R, ann.prefix, origin(ann))[1])

\* Policy.ann_is_invalid_by_roa
ann_is_invalid_by_roa(R, ann) ==
    is_invalid(get_roa_outcome(R, ann.prefix, origin(ann))[1])

-----------------------------------------------------------------------------
(* AS graph *)

\* CommonASNs of the engine test configurations
VICTIM == 5
ATTACKER == 6

\* one AS of graph_data["ases"]
ASInfo(peers, providers, customers) ==
    [peer_asns |-> peers, provider_asns |-> providers, customer_asns |-> customers]

\* graph_data of the example configurations, cut down to six ASes: two stubs
\* (victim and attacker) with shared and separate providers, a second provider
\* level and one peering link
ExampleGraph ==
    (1 :> ASInfo({}, {3}, {ATTACKER})
     @@ 2 :> ASInfo({}, {3}, {VICTIM, ATTACKER})
     @@ 3 :> ASInfo({4}, {}, {1, 2})
     @@ 4 :> ASInfo({3}, {}, {VICTIM})
     @@ VICTIM :> ASInfo({}, {2, 4}, {})
     @@ ATTACKER :> ASInfo({}, {1, 2}, {}))

\* AS.get_neighbor: the neighbors of asn in relationship class rel
get_neighbor(g, asn, rel) ==
    IF rel = PEERS THEN g[asn].peer_asns
    ELSE IF rel = PROVIDERS THEN g[asn].provider_asns
    ELSE g[asn].customer_asns

\* AS.neighbor_asns
neighbor_asns(g, asn) ==
    g[asn].customer_asns \cup g[asn].peer_asns \cup g[asn].provider_asns

\* mutant of EnforceFirstAS.valid_ann: the neighbor test is missing
EnforceFirstAS_valid_ann_NoNeighborTest(g, asn, ann) ==
    ann.next_hop_asn = ann.as_path[1]

\* EnforceFirstAS.valid_ann
EnforceFirstAS_valid_ann(g, asn, ann) ==
    /\ ann.next_hop_asn = ann.as_path[1]
    /\ ann.next_hop_asn \in neighbor_asns(g, asn)

\* the larger of the numbers of a non-empty finite set
MaxOf(S) == CHOOSE m \in S : \A x \in S : x <= m

\* ASGraphUtils.assign_as_propagation_rank: the rank the recursion ends with on
\* an acyclic graph whose for loop reaches every AS before its customers: 0
\* for an AS without customers, else one more than the highest rank among its
\* customers (RankNextAS and RankProvider run the loop in every order)
RECURSIVE PropagationRank(_, _)
PropagationRank(g, asn) ==
    IF g[asn].customer_asns = {} THEN 0
    ELSE 1 + MaxOf({PropagationRank(g, c) : c \in g[asn].customer_asns})

\* ASGraphUtils._assign_ranks_helper on the ranks so far (-1 for None): the
\* rank is raised, and then that of each provider, only where it becomes higher
RECURSIVE _assign_ranks_helper(_, _, _, _)
RECURSIVE AssignRanksOfProviders(_, _, _, _)
_assign_ranks_helper(g, ranks, asn, rank_) ==
    IF ranks[asn] = -1 \/ ranks[asn] < rank_
    THEN AssignRanksOfProviders(g, [ranks EXCEPT ![asn] = rank_],
                                g[asn].provider_asns, rank_ + 1)
    ELSE ranks

\* the for loop of _assign_ranks_helper over the providers in todo
AssignRanksOfProviders(g, ranks, todo, rank_) ==
    IF todo = {} THEN ranks
    ELSE LET provider_asn == CHOOSE x \in todo : TRUE
         IN  AssignRanksOfProviders(g, _assign_ranks_helper(g, ranks, provider_asn, rank_),
                                    todo \ {provider_asn}, rank_)

\* ASGraphUtils.assign_as_propagation_rank with the for loop visiting the ASes
\* in the order of the sequence order, from position i: each AS has its rank
\* set to None and then _assign_ranks_helper called with rank 0
RECURSIVE assign_as_propagation_rank(_, _, _, _)
assign_as_propagation_rank(g, ranks, order, i) ==
    IF i > Len(order) THEN ranks
    ELSE assign_as_propagation_rank(
             g, _assign_ranks_helper(g, [ranks EXCEPT ![order[i]] = -1], order[i], 0),
             order, i + 1)

\* the rank of asn the engine sweeps with: the one computed for the drawn order
\* of the loop where as_graph_json carries it, else PropagationRank
RankOfAS(g, asn) ==
    IF as_graph_json.pc = "ranked" THEN as_graph_json.propagation_rank[asn]
    ELSE PropagationRank(g, asn)

\* ASGraphUtils.assign_as_graph_propagation_ranks: max_rank, and the ASes of a rank
MaxRank(g) == MaxOf({RankOfAS(g, a) : a \in DOMAIN g})

RankASes(g, r) == {a \in DOMAIN g : RankOfAS(g, a) = r}

-----------------------------------------------------------------------------
(* Policy: seeding, receiving, processing *)

\* number of engine.run calls of a trial (ScenarioConfig.propagation_rounds)
MaxRounds == 2

NoPrefixAnn == [p \in Prefixes |-> None]
EmptyQueue == [p \in Prefixes |-> <<>>]

\* mutant of process_ann: the own ASN is not prepended
process_ann_NoPrepend(asn, unprocessed_ann, from_rel) ==
    CopyPathRel(unprocessed_ann, unprocessed_ann.as_path, from_rel)

\* mutant of process_ann: recv_relationship is set to UNKNOWN instead of from_rel
process_ann_UnknownRel(asn, unprocessed_ann, from_rel) ==
    CopyPathRel(unprocessed_ann, <<asn>> \o unprocessed_ann.as_path, UNKNOWN)

\* Policy.process_ann: prepend the own ASN, set recv_relationship (the BGPsec
\* and BGP-iSec branches are taken only with those settings enabled)
process_ann(asn, unprocessed_ann, from_rel) ==
    CopyPathRel(unprocessed_ann, <<asn>> \o unprocessed_ann.as_path, from_rel)

\* OnlyToCustomers.valid_ann
OnlyToCustomers_valid_ann(ann, from_rel) ==
    ~(\/ /\ ann.only_to_customers # 0
          /\ from_rel = PEERS
          /\ ann.next_hop_asn # ann.only_to_customers
       \/ /\ ann.only_to_customers # 0
          /\ from_rel = CUSTOMERS)

\* what the extension classes' valid_ann return for ann at the policy of asn:
\* ROV, EnforceFirstAS and OnlyToCustomers as computed; the others are not
\* enabled in a trial
PolicyExt(asn, ann, from_rel) ==
    [AllPass EXCEPT !["ROV"] = ROV_valid_ann(roas, ann),
                    !["EnforceFirstAS"] = EnforceFirstAS_valid_ann(as_graph, asn, ann),
                    !["OnlyToCustomers"] = OnlyToCustomers_valid_ann(ann, from_rel)]

\* mutant of _get_new_best_ann: the announcement is compared whether valid or not
_get_new_best_ann_NoValidityCheck(asn, S, current_ann, new_ann, from_rel) ==
    _get_best_ann_by_gao_rexford("BGPSEC" \in S, "none", current_ann,
                                 process_ann(asn, new_ann, from_rel))

\* Policy._get_new_best_ann
_get_new_best_ann(asn, S, current_ann, new_ann, from_rel) ==
    IF valid_ann(asn, S, PolicyExt(asn, new_ann, from_rel), new_ann, from_rel)
    THEN _get_best_ann_by_gao_rexford("BGPSEC" \in S, "none", current_ann,
                                      process_ann(asn, new_ann, from_rel))
    ELSE current_ann

IsRaised(x) == "raised" \in DOMAIN x

\* the inner loop of process_incoming_anns over ann_list from position i: the
\* best announcement after the loop, or the exception a comparison raised
RECURSIVE BestOfQueue(_, _, _, _, _, _)
BestOfQueue(asn, S, current_ann, ann_list, i, from_rel) ==
    IF i > Len(ann_list) THEN current_ann
    ELSE LET nxt == _get_new_best_ann(asn, S, current_ann, ann_list[i], from_rel)
         IN  IF IsRaised(nxt) THEN nxt
             ELSE BestOfQueue(asn, S, nxt, ann_list, i + 1, from_rel)

\* the comparisons _get_best_ann_by_gao_rexford is called for during that loop
RECURSIVE ComparisonsOfQueue(_, _, _, _, _, _)
ComparisonsOfQueue(asn, S, current_ann, ann_list, i, from_rel) ==
    IF i > Len(ann_list) THEN {}
    ELSE LET nxt == _get_new_best_ann(asn, S, current_ann, ann_list[i], from_rel)
             here == IF valid_ann(asn, S, PolicyExt(asn, ann_list[i], from_rel),
                                     ann_list[i], from_rel)
                     THEN {[current |-> current_ann,
                            new |-> process_ann(asn, ann_list[i], from_rel),
                            result |-> nxt]}
                     ELSE {}
         IN  IF IsRaised(nxt) THEN here
             ELSE here \cup ComparisonsOfQueue(asn, S, nxt, ann_list, i + 1, from_rel)

\* the queued announcements of asn that valid_ann rejects
RejectedOfQueues(asn, from_rel) ==
    {ann \in UNION {Elems(recv_q[asn][p]) : p \in Prefixes} :
        ~valid_ann(asn, settings[asn], PolicyExt(asn, ann, from_rel), ann, from_rel)}

\* the local RIB entry of a prefix after the loop over its ann_list
EntryAfterQueue(asn, S, current_ann, ann_list, from_rel) ==
    LET best == BestOfQueue(asn, S, current_ann, ann_list, 1, from_rel)
    IN  IF IsRaised(best) THEN current_ann ELSE best

\* the settings under which ROVPPV1Lite.process_incoming_anns runs at the end
RovppEnabled(S) ==
    "ROVPP_V1_LITE" \in S \/ "ROVPP_V2_LITE" \in S \/ "ROVPP_V2I_LITE" \in S

\* ROVPPV1Lite.process_incoming_anns: a prefix that is still without a route
\* and for which an announcement invalid by ROA is queued gets a blackhole, the
\* processed copy of the first such announcement with rovpp_blackhole set
ROVPPV1Lite_process_incoming_anns(asn, entry, ann_list, from_rel) ==
    LET holes == {i \in 1..Len(ann_list) :
                    /\ ann_is_invalid_by_roa(roas, ann_list[i])
                    /\ BGP_valid_ann(asn, ann_list[i], from_rel)}
    IN  IF entry = None /\ holes # {}
        THEN [process_ann(asn, ann_list[CHOOSE i \in holes : \A j \in holes : i <= j],
                          from_rel)
                EXCEPT !.rovpp_blackhole = TRUE]
        ELSE entry

\* the local RIB entry of a prefix after process_incoming_anns
EntryAfterProcessing(asn, S, current_ann, ann_list, from_rel) ==
    IF RovppEnabled(S)
    THEN ROVPPV1Lite_process_incoming_anns(
             asn, EntryAfterQueue(asn, S, current_ann, ann_list, from_rel),
             ann_list, from_rel)
    ELSE EntryAfterQueue(asn, S, current_ann, ann_list, from_rel)

\* the local RIB of asn after process_incoming_anns
RibAfterProcessing(asn, from_rel) ==
    [p \in Prefixes |->
        EntryAfterProcessing(asn, settings[asn], local_rib[asn][p], recv_q[asn][p],
                             from_rel)]

\* the exceptions raised while processing the queues of asn
RaisedWhileProcessing(asn, from_rel) ==
    {BestOfQueue(asn, settings[asn], local_rib[asn][p], recv_q[asn][p], 1,
                 from_rel).raised :
        p \in {q \in Prefixes :
                 IsRaised(BestOfQueue(asn, settings[asn], local_rib[asn][q],
                                      recv_q[asn][q], 1, from_rel))}}

\* the relationship the engine drains with in each sweep
FromRelOf(sw) ==
    IF sw = "up" THEN CUSTOMERS ELSE IF sw = "peer" THEN PEERS ELSE PROVIDERS

\* the relationship class the engine sends to in each sweep
PropagateToOf(sw) ==
    IF sw = "up" THEN PROVIDERS ELSE IF sw = "peer" THEN PEERS ELSE CUSTOMERS

\* mutant of the send_rels: every relationship is exported to every class
SendRels_All(propagate_to) ==
    {ORIGIN, CUSTOMERS, PEERS, PROVIDERS}

\* mutant of the send_rels: only the AS's own routes go to peers and providers
SendRels_OriginOnly(propagate_to) ==
    IF propagate_to = CUSTOMERS THEN {ORIGIN, CUSTOMERS, PEERS, PROVIDERS}
    ELSE {ORIGIN}

\* send_rels of propagate_to_providers / propagate_to_peers / propagate_to_customers
SendRels(propagate_to) ==
    IF propagate_to = CUSTOMERS THEN {ORIGIN, CUSTOMERS, PEERS, PROVIDERS}
    ELSE {ORIGIN, CUSTOMERS}

\* Policy.policy_propagate: TRUE when a hook has taken care of the
\* announcement without sending it.  ROVPPV1Lite.get_policy_propagate_vals keeps
\* a blackhole from peers and providers; no other propagation hook is enabled
\* in a trial.
policy_propagate(asn, ann, propagate_to, send_rels) ==
    /\ RovppEnabled(settings[asn])
    /\ ann.rovpp_blackhole
    /\ propagate_to # CUSTOMERS

\* OnlyToCustomers.get_policy_propagate_vals at the policy of asn: towards
\* customers and providers the copy stamped with the AS's own ASN is handed to
\* process_outgoing_ann (sent) and returned with policy_propagate_bool and
\* send_ann_bool set; towards peers the hook does nothing
OnlyToCustomers_get_policy_propagate_vals(asn, ann, propagate_to) ==
    IF propagate_to \in {CUSTOMERS, PROVIDERS}
    THEN [policy_propagate_bool |-> TRUE,
          ann |-> [ann EXCEPT !.only_to_customers = asn],
          send_ann_bool |-> TRUE,
          sent |-> <<[ann EXCEPT !.only_to_customers = asn]>>]
    ELSE [policy_propagate_bool |-> FALSE, ann |-> ann, send_ann_bool |-> FALSE,
          sent |-> <<>>]

\* what one neighbor of class propagate_to receives for ann in _propagate: the
\* announcements handed to process_outgoing_ann by the OnlyToCustomers hook, by
\* policy_propagate when a hook has replaced the announcement (og_ann != ann),
\* and by _propagate itself when policy_propagate returns False
OutgoingAnns(asn, ann, propagate_to, send_rels) ==
    LET otc == IF "ONLY_TO_CUSTOMERS" \in settings[asn]
               THEN OnlyToCustomers_get_policy_propagate_vals(asn, ann, propagate_to)
               ELSE [policy_propagate_bool |-> FALSE, ann |-> ann,
                     send_ann_bool |-> FALSE, sent |-> <<>>]
    IN  IF policy_propagate(asn, otc.ann, propagate_to, send_rels)
        THEN otc.sent
        ELSE otc.sent \o <<otc.ann>>

\* Policy._propagate: recv_q of every AS after asn has sent to its neighbors of
\* class propagate_to; process_outgoing_ann hands the copy to receive_ann
QueuesAfterPropagate(asn, propagate_to, send_rels) ==
    LET neighbor_ases == get_neighbor(as_graph, asn, propagate_to)
    IN  [nb \in DOMAIN recv_q |->
            [p \in Prefixes |->
                IF nb \in neighbor_ases
                   /\ local_rib[asn][p] # None
                   /\ local_rib[asn][p].recv_relationship \in send_rels
                THEN recv_q[nb][p] \o OutgoingAnns(asn, CopyNextHop(local_rib[asn][p], asn),
                                                   propagate_to, send_rels)
                ELSE recv_q[nb][p]]]

-----------------------------------------------------------------------------
(* One trial: engine.run for propagation_round 0 .. MaxRounds - 1 *)

\* the harness variables of the other specifications, at rest
Idle == [pc |-> "idle"]

SeedASNs == {VICTIM, ATTACKER}

\* the announcements the scenarios seed at asn: the own prefix or subprefix with
\* as_path (asn,), and at the attacker also the forged-origin path (asn, victim)
SeedAnns(asn) ==
    {Announcement(p, <<asn>>, asn, ORIGIN) :
        p \in (IF asn = VICTIM THEN {PREFIX} ELSE Prefixes)}
    \cup (IF asn = ATTACKER
          THEN {Announcement(p, <<asn, VICTIM>>, asn, ORIGIN) : p \in Prefixes}
          ELSE {})

\* Scenario._get_roas: one ROA per legitimate origin, for its prefix
ScenarioROAs == {ROA(PREFIX, VICTIM, PrefixLen(PREFIX))}

\* settings of every AS with the setting names in S enabled at the ASes in at
SettingsAt(at, S) == [a \in DOMAIN ExampleGraph |-> IF a \in at THEN S ELSE {}]

\* the trials: plain BGP everywhere; ROV at the two providers of the victim,
\* with and without the scenario's ROAs; ROV++ v1 at one of them;
\* Enforce-First-AS everywhere
TrialConfigs ==
    {[settings |-> SettingsAt({}, {}), roas |-> {}],
     [settings |-> SettingsAt({2, 4}, {"ROV"}), roas |-> ScenarioROAs],
     [settings |-> SettingsAt({2, 4}, {"ROV"}), roas |-> {}],
     [settings |-> SettingsAt({2}, {"ROVPP_V1_LITE"}), roas |-> ScenarioROAs],
     [settings |-> SettingsAt(DOMAIN ExampleGraph, {"ENFORCE_FIRST_AS"}), roas |-> {}]}

Init ==
    /\ as_graph = ExampleGraph
    /\ trial = 0
    /\ \E cfg \in TrialConfigs :
          /\ settings = cfg.settings
          /\ roas = cfg.roas
    /\ local_rib = [a \in DOMAIN ExampleGraph |-> NoPrefixAnn]
    /\ recv_q = [a \in DOMAIN ExampleGraph |-> EmptyQueue]
    /\ sweep = "seed"
    /\ rank = 0
    /\ stage = "send"
    /\ pending = {}
    /\ round = 0
    /\ err = "none"
    /\ cmpLog = {}
    /\ rejLog = {}
    /\ gr = Idle
    /\ as_graph_json = Idle
    /\ call = Idle
    /\ most_specific_prefix_cache = Idle
    /\ va = Idle
    /\ dp = Idle

\* mutant of seed_ann: no assertion, the entry is replaced
seed_ann_Overwrite(asn, ann) ==
    /\ sweep = "seed"
    /\ err = "none"
    /\ local_rib' = [local_rib EXCEPT ![asn][ann.prefix] = ann]
    /\ cmpLog' = {}
    /\ rejLog' = {}
    /\ UNCHANGED <<as_graph, trial, settings, roas, recv_q, sweep, rank, stage, pending,
                   round, err>>
    /\ UNCHANGED <<gr, va, dp, as_graph_json, call, most_specific_prefix_cache>>

\* Policy.seed_ann, called by the engine for every seed of the scenario; the
\* assertion fails when the prefix already has an entry
seed_ann(asn, ann) ==
    /\ sweep = "seed"
    /\ err = "none"
    /\ IF local_rib[asn][ann.prefix] # None
       THEN /\ err' = "AssertionError"
            /\ UNCHANGED local_rib
       ELSE /\ local_rib' = [local_rib EXCEPT ![asn][ann.prefix] = ann]
            /\ UNCHANGED err
    /\ cmpLog' = {}
    /\ rejLog' = {}
    /\ UNCHANGED <<as_graph, trial, settings, roas, recv_q, sweep, rank, stage, pending, round>>
    /\ UNCHANGED <<gr, va, dp, as_graph_json, call, most_specific_prefix_cache>>

\* the engine starts the customer-to-provider sweep at rank 0
StartPropagation ==
    /\ sweep = "seed"
    /\ err = "none"
    /\ sweep' = "up"
    /\ rank' = 0
    /\ stage' = "send"
    /\ pending' = RankASes(as_graph, 0)
    /\ cmpLog' = {}
    /\ rejLog' = {}
    /\ UNCHANGED <<as_graph, trial, settings, roas, local_rib, recv_q, round, err>>
    /\ UNCHANGED <<gr, va, dp, as_graph_json, call, most_specific_prefix_cache>>

\* Policy._propagate for one AS of the current sending step
Propagate(asn, propagate_to) ==
    /\ err = "none"
    /\ stage = "send"
    /\ asn \in pending
    /\ PropagateToOf(sweep) = propagate_to
    /\ recv_q' = QueuesAfterPropagate(asn, propagate_to, SendRels(propagate_to))
    /\ pending' = pending \ {asn}
    /\ cmpLog' = {}
    /\ rejLog' = {}
    /\ UNCHANGED <<as_graph, trial, settings, roas, local_rib, sweep, rank, stage, round, err>>
    /\ UNCHANGED <<gr, va, dp, as_graph_json, call, most_specific_prefix_cache>>

propagate_to_providers(asn) ==
    /\ sweep = "up"
    /\ Propagate(asn, PROVIDERS)

propagate_to_peers(asn) ==
    /\ sweep = "peer"
    /\ Propagate(asn, PEERS)

propagate_to_customers(asn) ==
    /\ sweep = "down"
    /\ Propagate(asn, CUSTOMERS)

\* Policy.process_incoming_anns for one AS of the current draining step.  A
\* comparison that raises ends the trial: err records the exception.
process_incoming_anns(asn) ==
    LET from_rel == FromRelOf(sweep)
        raised == RaisedWhileProcessing(asn, from_rel)
    IN  /\ err = "none"
        /\ sweep \in {"up", "peer", "down"}
        /\ stage = "drain"
        /\ asn \in pending
        /\ cmpLog' = UNION {ComparisonsOfQueue(asn, settings[asn], local_rib[asn][p],
                                               recv_q[asn][p], 1, from_rel) :
                              p \in Prefixes}
        /\ rejLog' = RejectedOfQueues(asn, from_rel)
        /\ local_rib' = [local_rib EXCEPT ![asn] = RibAfterProcessing(asn, from_rel)]
        /\ IF raised = {}
           THEN /\ recv_q' = [recv_q EXCEPT ![asn] = EmptyQueue]
                /\ UNCHANGED err
           ELSE /\ err' = CHOOSE e \in raised : TRUE
                /\ UNCHANGED recv_q
        /\ pending' = pending \ {asn}
        /\ UNCHANGED <<as_graph, trial, settings, roas, sweep, rank, stage, round>>
        /\ UNCHANGED <<gr, va, dp, as_graph_json, call, most_specific_prefix_cache>>

\* mutant of the schedule: the peer sweep is left out
NextStep_NoPeerSweep(sw, r, st, max_rank) ==
    IF sw = "up" /\ st = "drain" THEN <<"up", r, "send">>
    ELSE IF sw = "up" /\ r < max_rank THEN <<"up", r + 1, "drain">>
    ELSE IF sw = "up" THEN <<"down", max_rank, "send">>
    ELSE IF sw = "down" /\ st = "drain" THEN <<"down", r, "send">>
    ELSE IF sw = "down" /\ r > 0 THEN <<"down", r - 1, "drain">>
    ELSE <<"round_done", 0, "send">>

\* mutant of the schedule: in the peer sweep the ASes drain before they send
NextStep_PeerDrainFirst(sw, r, st, max_rank) ==
    IF sw = "up" /\ st = "drain" THEN <<"up", r, "send">>
    ELSE IF sw = "up" /\ r < max_rank THEN <<"up", r + 1, "drain">>
    ELSE IF sw = "up" THEN <<"peer", 0, "drain">>
    ELSE IF sw = "peer" /\ st = "drain" THEN <<"peer", 0, "send">>
    ELSE IF sw = "peer" THEN <<"down", max_rank, "send">>
    ELSE IF sw = "down" /\ st = "drain" THEN <<"down", r, "send">>
    ELSE IF sw = "down" /\ r > 0 THEN <<"down", r - 1, "drain">>
    ELSE <<"round_done", 0, "send">>

\* the engine's schedule: the step after (sweep, rank, stage)
NextStep(sw, r, st, max_rank) ==
    IF sw = "up" /\ st = "drain" THEN <<"up", r, "send">>
    ELSE IF sw = "up" /\ r < max_rank THEN <<"up", r + 1, "drain">>
    ELSE IF sw = "up" THEN <<"peer", 0, "send">>
    ELSE IF sw = "peer" /\ st = "send" THEN <<"peer", 0, "drain">>
    ELSE IF sw = "peer" THEN <<"down", max_rank, "send">>
    ELSE IF sw = "down" /\ st = "drain" THEN <<"down", r, "send">>
    ELSE IF sw = "down" /\ r > 0 THEN <<"down", r - 1, "drain">>
    ELSE <<"round_done", 0, "send">>

\* the ASes that run in a step: one rank in the rank sweeps, every AS in the
\* peer sweep
StepASes(g, sw, r) ==
    IF sw = "peer" THEN DOMAIN g
    ELSE IF sw = "round_done" THEN {}
    ELSE RankASes(g, r)

\* every AS of the step has run: the engine moves to the next step
EngineAdvance ==
    LET nxt == NextStep(sweep, rank, stage, MaxRank(as_graph))
    IN  /\ err = "none"
        /\ sweep \in {"up", "peer", "down"}
        /\ pending = {}
        /\ sweep' = nxt[1]
        /\ rank' = nxt[2]
        /\ stage' = nxt[3]
        /\ pending' = StepASes(as_graph, nxt[1], nxt[2])
        /\ cmpLog' = {}
        /\ rejLog' = {}
        /\ UNCHANGED <<as_graph, trial, settings, roas, local_rib, recv_q, round, err>>
        /\ UNCHANGED <<gr, va, dp, as_graph_json, call, most_specific_prefix_cache>>

\* EngineRunner.run: the next engine.run, with propagation_round + 1; nothing
\* is cleared or seeded for propagation_round > 0
NextRound ==
    /\ err = "none"
    /\ sweep = "round_done"
    /\ round + 1 < MaxRounds
    /\ round' = round + 1
    /\ sweep' = "up"
    /\ rank' = 0
    /\ stage' = "send"
    /\ pending' = RankASes(as_graph, 0)
    /\ cmpLog' = {}
    /\ rejLog' = {}
    /\ UNCHANGED <<as_graph, trial, settings, roas, local_rib, recv_q, err>>
    /\ UNCHANGED <<gr, va, dp, as_graph_json, call, most_specific_prefix_cache>>

\* number of trials run on the same graph
MaxTrials == 2

\* mutant of Policy.clear: nothing is cleared
clear_Nothing(asn) == [local_rib |-> local_rib[asn], recv_q |-> recv_q[asn]]

\* Policy.clear: the local RIB and the receive queue of asn after the call
clear(asn) == [local_rib |-> NoPrefixAnn, recv_q |-> EmptyQueue]

\* the next trial on the same graph: engine.run with propagation_round 0 clears
\* every policy, applies the trial's settings and ROAs, and seeding starts
NewTrial ==
    /\ err = "none"
    /\ sweep = "round_done"
    /\ round + 1 = MaxRounds
    /\ trial + 1 < MaxTrials
    /\ trial' = trial + 1
    /\ \E cfg \in TrialConfigs :
          /\ settings' = cfg.settings
          /\ roas' = cfg.roas
    /\ local_rib' = [a \in DOMAIN as_graph |-> clear(a).local_rib]
    /\ recv_q' = [a \in DOMAIN as_graph |-> clear(a).recv_q]
    /\ sweep' = "seed"
    /\ rank' = 0
    /\ stage' = "send"
    /\ pending' = {}
    /\ round' = 0
    /\ cmpLog' = {}
    /\ rejLog' = {}
    /\ UNCHANGED <<as_graph, err>>
    /\ UNCHANGED <<gr, va, dp, as_graph_json, call, most_specific_prefix_cache>>

Next ==
    \/ NewTrial
    \/ \E asn \in SeedASNs : \E ann \in SeedAnns(asn) : seed_ann(asn, ann)
    \/ StartPropagation
    \/ \E asn \in DOMAIN as_graph : propagate_to_providers(asn)
    \/ \E asn \in DOMAIN as_graph : propagate_to_peers(asn)
    \/ \E asn \in DOMAIN as_graph : propagate_to_customers(asn)
    \/ \E asn \in DOMAIN as_graph : process_incoming_anns(asn)
    \/ EngineAdvance
    \/ NextRound

Spec == Init /\ [][Next]_vars

-----------------------------------------------------------------------------
(* Properties of a trial (Spec) *)

\* the announcements in the local RIB of asn
RibAnns(asn) == {local_rib[asn][p] : p \in {q \in Prefixes : local_rib[asn][q] # None}}

\* the announcements waiting in the receive queue of asn
QueuedAnns(asn) ==
    UNION {Elems(recv_q[asn][p]) : p \in Prefixes}

\* C1: every announcement in the local RIB of an AS u has u.asn not in
\* as_path[1:] and 0 nowhere in as_path
C1_LoopFreeRibs ==
    \A u \in DOMAIN local_rib : \A a \in RibAnns(u) :
        /\ u \notin Elems(Tail1(a.as_path))
        /\ 0 \notin Elems(a.as_path)

\* C1 witness: the round is over, AS 2 holds the forged path through the
\* attacker that names the victim, and the victim, to which AS 2 exported it,
\* has no route for that prefix
C1_Witness ==
    /\ sweep = "round_done"
    /\ local_rib[2][SUBPREFIX] # None
    /\ local_rib[2][SUBPREFIX].as_path = <<2, ATTACKER, VICTIM>>
    /\ local_rib[VICTIM][SUBPREFIX] = None

\* C2: no announcement that its sender holds with recv_relationship PROVIDERS
\* sits in the receive queue of one of the sender's peers or providers
C2_ValleyFree ==
    \A v \in DOMAIN recv_q : \A a \in QueuedAnns(v) :
        a.recv_relationship = PROVIDERS
            => v \notin (as_graph[a.next_hop_asn].peer_asns
                         \cup as_graph[a.next_hop_asn].provider_asns)

\* C2 witness: in the second round AS 1, whose route was learned from its
\* provider, has run propagate_to_providers and its provider's queue is empty
C2_Witness ==
    /\ round = 1
    /\ sweep = "up"
    /\ stage = "send"
    /\ rank = 1
    /\ 1 \notin pending
    /\ local_rib[1][PREFIX] # None
    /\ local_rib[1][PREFIX].recv_relationship = PROVIDERS
    /\ as_graph[1].provider_asns = {3}
    /\ recv_q[3][PREFIX] = <<>>

\* C3: every announcement in the local RIB of AS u has as_path[0] = u.asn
C3_PathStartsAtHolder ==
    \A u \in DOMAIN local_rib : \A a \in RibAnns(u) :
        /\ Len(a.as_path) >= 1
        /\ a.as_path[1] = u

\* C3 witness: a seeded announcement and one installed by
\* process_incoming_anns are both in local RIBs
C3_Witness ==
    /\ local_rib[ATTACKER][PREFIX] # None
    /\ local_rib[ATTACKER][PREFIX].recv_relationship = ORIGIN
    /\ local_rib[3][PREFIX] # None
    /\ local_rib[3][PREFIX].recv_relationship = CUSTOMERS

\* C4: no announcement in a local RIB has recv_relationship UNKNOWN, and no
\* Gao-Rexford comparison involves an announcement with that relationship
C4_NoUnknownRelationship ==
    /\ \A u \in DOMAIN local_rib : \A a \in RibAnns(u) :
          a.recv_relationship # UNKNOWN
    /\ \A c \in cmpLog :
          /\ c.new.recv_relationship # UNKNOWN
          /\ c.current # None => c.current.recv_relationship # UNKNOWN

\* C4 witness: process_incoming_anns has compared a seeded (ORIGIN) route with
\* a received one
C4_Witness ==
    \E c \in cmpLog :
        /\ c.current # None
        /\ c.current.recv_relationship = ORIGIN
        /\ c.new.recv_relationship = PROVIDERS

\* C9: during propagation every call of the decision procedure returns one of
\* its two announcements and none ends in GaoRexfordError
C9_DecisionAlwaysChooses ==
    /\ err # "GaoRexfordError"
    /\ \A c \in cmpLog : c.result = c.current \/ c.result = c.new

\* C9 witness: a comparison went through every step to the final tiebreak with
\* equal neighbor ASNs (the neighbor re-sent its route in the second round)
C9_Witness ==
    \E c \in cmpLog :
        /\ c.current # None
        /\ c.current.recv_relationship = c.new.recv_relationship
        /\ Len(c.current.as_path) = Len(c.new.as_path)
        /\ c.current.as_path[2] = c.new.as_path[2]
        /\ c.result = c.current

\* the announcement a step has appended to the queue of nb for prefix p
NewlyQueued(nb, p) == recv_q'[nb][p][Len(recv_q'[nb][p])]

\* C14: a round is the customer-to-provider sweep (ranks ascending, routes
\* installed with CUSTOMERS), then the peer sweep (PEERS), then the
\* provider-to-customer sweep (ranks descending, PROVIDERS); an announcement
\* reaches a peer's queue only in the peer sweep, and a customer's queue only in
\* the downward sweep, when no announcement from a peer is waiting anywhere
C14_SweepOrder ==
    [][/\ sweep' # sweep =>
             <<sweep, sweep'>> \in {<<"round_done", "seed">>, <<"seed", "up">>, <<"up", "peer">>, <<"peer", "down">>,
                                    <<"down", "round_done">>, <<"round_done", "up">>}
       /\ (sweep = "up" /\ sweep' = "up") => rank' >= rank
       /\ (sweep = "down" /\ sweep' = "down") => rank' <= rank
       /\ \A a \in DOMAIN as_graph : \A p \in Prefixes :
             (sweep' # "seed" /\ local_rib'[a][p] # local_rib[a][p]) =>
                 \/ sweep = "up" /\ local_rib'[a][p].recv_relationship = CUSTOMERS
                 \/ sweep = "peer" /\ local_rib'[a][p].recv_relationship = PEERS
                 \/ sweep = "down" /\ local_rib'[a][p].recv_relationship = PROVIDERS
       /\ \A nb \in DOMAIN as_graph : \A p \in Prefixes :
             Len(recv_q'[nb][p]) > Len(recv_q[nb][p]) =>
                 /\ NewlyQueued(nb, p).next_hop_asn \in as_graph[nb].customer_asns
                       => sweep = "up"
                 /\ NewlyQueued(nb, p).next_hop_asn \in as_graph[nb].peer_asns
                       => sweep = "peer"
                 /\ NewlyQueued(nb, p).next_hop_asn \in as_graph[nb].provider_asns
                       => /\ sweep = "down"
                          /\ \A a \in DOMAIN as_graph : \A ann \in QueuedAnns(a) :
                                ann.next_hop_asn \notin as_graph[a].peer_asns
      ]_vars

\* C14 witness: a round is over in which routes were installed in each of the
\* three sweeps
C14_Witness ==
    /\ sweep = "round_done"
    /\ \E a \in DOMAIN as_graph : \E ann \in RibAnns(a) : ann.recv_relationship = CUSTOMERS
    /\ \E a \in DOMAIN as_graph : \E ann \in RibAnns(a) : ann.recv_relationship = PEERS
    /\ \E a \in DOMAIN as_graph : \E ann \in RibAnns(a) : ann.recv_relationship = PROVIDERS

\* the neighbors whose announcements an AS drains in a sweep
SendersTo(a, sw) ==
    IF sw = "up" THEN as_graph[a].customer_asns
    ELSE IF sw = "peer" THEN as_graph[a].peer_asns
    ELSE as_graph[a].provider_asns

\* the route of b for p is one that b exports in sweep sw
Exported(b, p, sw) ==
    /\ local_rib[b][p] # None
    /\ sw \in {"up", "peer"} =>
          /\ local_rib[b][p].recv_relationship \in {ORIGIN, CUSTOMERS}
          /\ ~(local_rib[b][p].rovpp_blackhole /\ RovppEnabled(settings[b]))

PlainBgp == \A a \in DOMAIN as_graph : settings[a] = {}

\* the fields of an announcement other than next_hop_asn
OtherFields(ann) ==
    <<ann.prefix, ann.as_path, ann.recv_relationship, ann.only_to_customers,
      ann.rovpp_blackhole>>

\* C34: in plain BGP, when AS a propagates to a relationship class,
\* policy_propagate is false for every route it exports, each neighbor of the
\* class gets exactly one more announcement per exported prefix, equal to a's
\* local RIB entry in every field but next_hop_asn, which is a; every other
\* queue and every local RIB, the sender's included, stay as they were
C34_PlainPropagate ==
    [][(PlainBgp /\ sweep \in {"up", "peer", "down"} /\ stage = "send"
          /\ pending' # pending /\ pending' \subseteq pending /\ stage' = stage
          /\ sweep' = sweep) =>
          \E a \in pending \ pending' :
             LET propagate_to == PropagateToOf(sweep)
                 exported(p) == /\ local_rib[a][p] # None
                                /\ local_rib[a][p].recv_relationship
                                      \in SendRels(propagate_to)
             IN  /\ local_rib' = local_rib
                 /\ \A p \in Prefixes :
                       exported(p) =>
                          ~policy_propagate(a, CopyNextHop(local_rib[a][p], a),
                                            propagate_to, SendRels(propagate_to))
                 /\ \A nb \in DOMAIN as_graph : \A p \in Prefixes :
                       IF nb \in get_neighbor(as_graph, a, propagate_to) /\ exported(p)
                       THEN /\ Len(recv_q'[nb][p]) = Len(recv_q[nb][p]) + 1
                            /\ SubSeq(recv_q'[nb][p], 1, Len(recv_q[nb][p]))
                                  = recv_q[nb][p]
                            /\ LET sent == recv_q'[nb][p][Len(recv_q'[nb][p])]
                               IN  /\ sent.next_hop_asn = a
                                   /\ OtherFields(sent) = OtherFields(local_rib[a][p])
                       ELSE recv_q'[nb][p] = recv_q[nb][p]
      ]_vars

\* C34 witness: in plain BGP AS 2 has sent the victim's route, learned from
\* its customer, to its provider: the copy in the provider's queue names AS 2
\* as next hop, while AS 2's own entry still names the victim
C34_Witness ==
    /\ PlainBgp
    /\ sweep = "up"
    /\ stage = "send"
    /\ 2 \notin pending
    /\ local_rib[2][PREFIX] # None
    /\ local_rib[2][PREFIX].next_hop_asn = VICTIM
    /\ \E nb \in as_graph[2].provider_asns :
          /\ Len(recv_q[nb][PREFIX]) > 0
          /\ recv_q[nb][PREFIX][Len(recv_q[nb][PREFIX])].next_hop_asn = 2
          /\ recv_q[nb][PREFIX][Len(recv_q[nb][PREFIX])].as_path
                = local_rib[2][PREFIX].as_path

\* C35: between clears, a local RIB entry with recv_relationship ORIGIN (a
\* seeded route) is the entry for its prefix after every step of every round,
\* whatever has been received for the prefix
C35_SeedNeverDisplaced ==
    [][trial' = trial =>
          \A a \in DOMAIN as_graph : \A p \in Prefixes :
             (local_rib[a][p] # None /\ local_rib[a][p].recv_relationship = ORIGIN)
                => local_rib'[a][p] = local_rib[a][p]
      ]_vars

\* C35 witness: the attacker has drained a valid announcement of the victim's
\* route for the prefix it seeded itself, compared the two, and kept its seed
C35_Witness ==
    \E c \in cmpLog :
       /\ c.current # None
       /\ c.current.recv_relationship = ORIGIN
       /\ c.current.as_path = <<ATTACKER>>
       /\ c.new.prefix = c.current.prefix
       /\ c.new.as_path[Len(c.new.as_path)] = VICTIM
       /\ c.result = c.current
       /\ local_rib[ATTACKER][c.current.prefix] = c.current

\* every seeded route has the one-element path of its origin
HonestSeeds ==
    \A u \in DOMAIN as_graph : \A p \in Prefixes :
        (local_rib[u][p] # None /\ local_rib[u][p].recv_relationship = ORIGIN)
            => local_rib[u][p].as_path = <<u>>

\* following next_hop_asn for prefix p from AS u ends, within fuel hops and
\* without coming back to an AS of seen, at an AS holding its own seed
RECURSIVE ReachesOrigin(_, _, _, _)
ReachesOrigin(u, p, seen, fuel) ==
    /\ u \notin seen
    /\ local_rib[u][p] # None
    /\ \/ local_rib[u][p].recv_relationship = ORIGIN
       \/ /\ fuel > 0
          /\ local_rib[u][p].next_hop_asn \in DOMAIN as_graph
          /\ ReachesOrigin(local_rib[u][p].next_hop_asn, p, seen \cup {u}, fuel - 1)

StrictlyBetter(new_ann, current_ann) ==
    \/ new_ann.recv_relationship > current_ann.recv_relationship
    \/ /\ new_ann.recv_relationship = current_ann.recv_relationship
       /\ Len(new_ann.as_path) < Len(current_ann.as_path)
    \/ /\ new_ann.recv_relationship = current_ann.recv_relationship
       /\ Len(new_ann.as_path) = Len(current_ann.as_path)
       /\ Len(new_ann.as_path) >= 2
       /\ new_ann.as_path[2] < current_ann.as_path[2]

\* C38: between clears no step deletes a local RIB entry, and a step that
\* changes the entry for prefix p puts in its place an announcement for p that
\* ranks strictly better; an announcement that ties with the entry on
\* relationship, path length and neighbor ASN leaves it
C38_RoutesOnlyImprove ==
    [][trial' = trial =>
          \A u \in DOMAIN as_graph : \A p \in Prefixes :
             local_rib[u][p] # None =>
                /\ local_rib'[u][p] # None
                /\ local_rib'[u][p] # local_rib[u][p] =>
                      /\ local_rib'[u][p].prefix = p
                      /\ StrictlyBetter(local_rib'[u][p], local_rib[u][p])
      ]_vars

\* C38 witness: the only comparison of the last processing was between the
\* entry and a received announcement of the same relationship and path length
\* from a neighbor with a smaller ASN, which is now the entry
C38_Witness ==
    \E c \in cmpLog :
       /\ cmpLog = {c}
       /\ c.current # None
       /\ c.result = c.new
       /\ c.new.recv_relationship = c.current.recv_relationship
       /\ Len(c.new.as_path) = Len(c.current.as_path)
       /\ c.new.as_path[2] < c.current.as_path[2]
       /\ local_rib[c.new.as_path[1]][c.new.prefix] = c.new

\* a different announcement that ties with the entry on all three has been
\* compared with it and the entry kept
C38_TieKept ==
    \E c \in cmpLog :
       /\ cmpLog = {c}
       /\ c.current # None
       /\ c.new # c.current
       /\ c.new.recv_relationship = c.current.recv_relationship
       /\ Len(c.new.as_path) = Len(c.current.as_path)
       /\ c.new.as_path[2] = c.current.as_path[2]
       /\ c.result = c.current
       /\ local_rib[c.new.as_path[1]][c.new.prefix] = c.current

\* the step is process_incoming_anns of AS a
DrainStep(a) ==
    /\ sweep \in {"up", "peer", "down"}
    /\ stage = "drain"
    /\ a \in pending
    /\ a \notin pending'

\* the queue of a for p is not empty and valid_ann rejects all of it
AllQueuedRejected(a, p) ==
    /\ recv_q[a][p] # <<>>
    /\ Elems(recv_q[a][p]) \subseteq RejectedOfQueues(a, FromRelOf(sweep))

\* C22 as stated: when valid_ann rejects every announcement queued for a
\* prefix, process_incoming_anns raises nothing, leaves the local RIB entry of
\* the prefix as it was and empties the queue
C22_InvalidLeavesRib ==
    [][\A a \in DOMAIN as_graph : \A p \in Prefixes :
          (DrainStep(a) /\ AllQueuedRejected(a, p)) =>
              /\ err' = "none"
              /\ local_rib'[a][p] = local_rib[a][p]
              /\ recv_q'[a] = EmptyQueue
      ]_vars

\* C22 amended: the same, except that an AS with a ROV++ setting may fill an
\* absent entry with a blackhole (rovpp_blackhole set) and changes no entry
\* otherwise
C22_InvalidLeavesRibUnlessBlackhole ==
    [][\A a \in DOMAIN as_graph : \A p \in Prefixes :
          (DrainStep(a) /\ AllQueuedRejected(a, p)) =>
              /\ err' = "none"
              /\ recv_q'[a] = EmptyQueue
              /\ \/ local_rib'[a][p] = local_rib[a][p]
                 \/ /\ RovppEnabled(settings[a])
                    /\ local_rib[a][p] = None
                    /\ local_rib'[a][p] # None
                    /\ local_rib'[a][p].rovpp_blackhole
      ]_vars

\* C22 witness: AS 2, running ROV, has just drained a queue whose only
\* announcement for SUBPREFIX was rejected: the entry is still absent and the
\* queue is empty
C22_Witness ==
    /\ sweep = "up"
    /\ stage = "drain"
    /\ 2 \notin pending
    /\ "ROV" \in settings[2]
    /\ err = "none"
    /\ \E ann \in rejLog : ann.prefix = SUBPREFIX /\ ann.next_hop_asn = ATTACKER
    /\ local_rib[2][SUBPREFIX] = None
    /\ recv_q[2] = EmptyQueue

\* C16: while a trial is being seeded every receive queue is empty and every
\* local RIB entry is one of the seeds, in later trials on the same graph as in
\* the first; a run with propagation_round > 0 changes no RIB and no queue
C16_TrialIsolation ==
    /\ [](sweep = "seed" =>
             \A a \in DOMAIN as_graph :
                /\ recv_q[a] = EmptyQueue
                /\ \A ann \in RibAnns(a) : a \in SeedASNs /\ ann \in SeedAnns(a))
    /\ [][round' > round => (local_rib' = local_rib /\ recv_q' = recv_q)]_vars

\* C16 witness: the second trial on the graph is being seeded after a trial
\* that left routes everywhere
C16_Witness ==
    /\ trial = 1
    /\ sweep = "seed"
    /\ local_rib[VICTIM][PREFIX] # None
    /\ \A a \in DOMAIN as_graph \ SeedASNs : RibAnns(a) = {}

\* the orders a queue of n announcements can sit in
Perms(n) == {f \in [1..n -> 1..n] : \A i, j \in 1..n : f[i] = f[j] => i = j}

Permuted(ann_list, f) == [i \in 1..Len(ann_list) |-> ann_list[f[i]]]

\* C17: whatever order the announcements of a prefix sit in a queue,
\* process_incoming_anns leaves the same entry; a drain changes the RIB and
\* queue of the draining AS only, and a send changes no RIB and no queue
\* except by appending, so the order of the ASes within a step changes no RIB
C17_OrderIndependent ==
    /\ [](sweep \in {"up", "peer", "down"} =>
             \A a \in DOMAIN as_graph : \A p \in Prefixes :
                \A f \in Perms(Len(recv_q[a][p])) :
                   EntryAfterProcessing(a, settings[a], local_rib[a][p],
                                        Permuted(recv_q[a][p], f), FromRelOf(sweep))
                     = EntryAfterProcessing(a, settings[a], local_rib[a][p],
                                            recv_q[a][p], FromRelOf(sweep)))
    /\ [][(sweep \in {"up", "peer", "down"} /\ sweep' = sweep) =>
             \/ /\ stage = "drain"
                /\ \E a \in DOMAIN as_graph :
                      \A b \in DOMAIN as_graph \ {a} :
                         local_rib'[b] = local_rib[b] /\ recv_q'[b] = recv_q[b]
             \/ /\ stage = "send"
                /\ local_rib' = local_rib
                /\ \A b \in DOMAIN as_graph : \A p \in Prefixes :
                      \/ recv_q'[b][p] = recv_q[b][p]
                      \/ \E ann \in QueuedAnns(b)' : recv_q'[b][p] = Append(recv_q[b][p], ann)
          ]_vars

\* C17 witness: AS 3 is about to drain a queue in which its two customers, on
\* paths of equal length, sit with the higher neighbor ASN first, and the
\* route through the lower neighbor ASN is the one it will install
C17_Witness ==
    /\ sweep = "up"
    /\ stage = "drain"
    /\ 3 \in pending
    /\ Len(recv_q[3][PREFIX]) = 2
    /\ recv_q[3][PREFIX][1].next_hop_asn = 2
    /\ recv_q[3][PREFIX][2].next_hop_asn = 1
    /\ Len(recv_q[3][PREFIX][1].as_path) = Len(recv_q[3][PREFIX][2].as_path)
    /\ RibAfterProcessing(3, CUSTOMERS)[PREFIX].next_hop_asn = 1

\* C13: a seed_ann call either fails with the assertion and leaves every local
\* RIB as it was, or fills one entry that was absent with an announcement of that
\* prefix and leaves every other entry as it was; no entry is ever replaced
C13_SeedAnnContract ==
    [][(sweep = "seed" /\ sweep' = "seed") =>
          \/ /\ err' = "AssertionError"
             /\ local_rib' = local_rib
             /\ \E asn \in SeedASNs : \E ann \in SeedAnns(asn) :
                   local_rib[asn][ann.prefix] # None
          \/ /\ err' = "none"
             /\ \E asn \in SeedASNs : \E ann \in SeedAnns(asn) :
                   /\ local_rib[asn][ann.prefix] = None
                   /\ local_rib' = [local_rib EXCEPT ![asn][ann.prefix] = ann]]_vars

\* C13 witness: a seed_ann call has failed on a prefix the attacker had already
\* seeded, and the entry seeded first is in place
C13_Witness ==
    /\ sweep = "seed"
    /\ err = "AssertionError"
    /\ local_rib[ATTACKER][PREFIX] # None
    /\ local_rib[ATTACKER][SUBPREFIX] = None
    /\ local_rib[VICTIM][PREFIX] # None

-----------------------------------------------------------------------------
(* The state of a trial while another specification runs *)

TrialAtRest ==
    /\ as_graph = ExampleGraph
    /\ trial = 0
    /\ settings = [a \in DOMAIN ExampleGraph |-> {}]
    /\ roas = {}
    /\ local_rib = [a \in DOMAIN ExampleGraph |-> NoPrefixAnn]
    /\ recv_q = [a \in DOMAIN ExampleGraph |-> EmptyQueue]
    /\ sweep = "idle"
    /\ rank = 0
    /\ stage = "send"
    /\ pending = {}
    /\ round = 0
    /\ err = "none"
    /\ cmpLog = {}
    /\ rejLog = {}

-----------------------------------------------------------------------------
(* SpecGR: the decision procedure applied to drawn announcements *)

\* longest as_path drawn for the decision procedure
MaxGRPathLen == 3

\* highest ASN drawn for the decision procedure
MaxGRASN == 2

GRPaths == SeqsOf(1..MaxGRASN, 1, MaxGRPathLen)

GRAnns ==
    {Announcement(PREFIX, path, path[1], rel) : path \in GRPaths, rel \in Relationships}

\* BGPSEC disabled, or enabled with each verdict of get_best_ann_by_bgpsec
GRBgpsec == {<<FALSE, "none">>, <<TRUE, "none">>, <<TRUE, "current">>, <<TRUE, "new">>}

InitGR ==
    /\ TrialAtRest
    /\ va = Idle
    /\ dp = Idle
    /\ as_graph_json = Idle
    /\ call = Idle
    /\ most_specific_prefix_cache = Idle
    /\ \E current_ann \in GRAnns \cup {None} : \E new_ann \in GRAnns :
       \E sec \in GRBgpsec :
          gr = [pc |-> "ready", current |-> current_ann, new |-> new_ann,
                bgpsec_enabled |-> sec[1], bgpsec_pick |-> sec[2],
                result |-> None]

\* a call of _get_best_ann_by_gao_rexford(current_ann, new_ann)
GRDecide ==
    /\ gr.pc = "ready"
    /\ gr' = [gr EXCEPT !.pc = "decided",
                        !.result = _get_best_ann_by_gao_rexford(
                            gr.bgpsec_enabled, gr.bgpsec_pick, gr.current, gr.new)]
    /\ UNCHANGED <<va, dp, as_graph_json, call, most_specific_prefix_cache>>
    /\ UNCHANGED propVars

\* a call of _get_best_ann_by_lowest_neighbor_asn_tiebreaker(current_ann, new_ann)
GRTiebreak ==
    /\ gr.pc = "ready"
    /\ gr.current # None
    /\ gr' = [gr EXCEPT !.pc = "tiebroken",
                        !.result = _get_best_ann_by_lowest_neighbor_asn_tiebreaker(
                            gr.current, gr.new)]
    /\ UNCHANGED <<va, dp, as_graph_json, call, most_specific_prefix_cache>>
    /\ UNCHANGED propVars

NextGR ==
    \/ GRDecide
    \/ GRTiebreak

SpecGR == InitGR /\ [][NextGR]_vars

\* C7: the announcement with the higher recv_relationship value wins whatever
\* the path lengths; with equal relationships the shorter as_path wins
C7_GaoRexfordOrder ==
    (gr.pc = "decided" /\ gr.current # None) =>
        /\ gr.current.recv_relationship > gr.new.recv_relationship
              => gr.result = gr.current
        /\ gr.current.recv_relationship < gr.new.recv_relationship
              => gr.result = gr.new
        /\ (/\ gr.current.recv_relationship = gr.new.recv_relationship
            /\ Len(gr.current.as_path) < Len(gr.new.as_path))
              => gr.result = gr.current
        /\ (/\ gr.current.recv_relationship = gr.new.recv_relationship
            /\ Len(gr.current.as_path) > Len(gr.new.as_path))
              => gr.result = gr.new

\* C7 witness: a customer route with the longer path has won against a
\* provider route with the shorter path
C7_Witness ==
    /\ gr.pc = "decided"
    /\ gr.current # None
    /\ gr.current.recv_relationship = PROVIDERS
    /\ gr.new.recv_relationship = CUSTOMERS
    /\ Len(gr.new.as_path) > Len(gr.current.as_path)
    /\ gr.result = gr.new

\* the neighbor ASN as the claim defines it: the second path element if the
\* path has one, else the first
ClaimedNeighborASN(as_path) == IF Len(as_path) >= 2 THEN as_path[2] ELSE as_path[1]

\* C8: on a tie of relationship and path length the tiebreaker returns the
\* announcement with the smaller neighbor ASN (second path element if present,
\* else the first), the current one on equal neighbor ASNs, for every pair of
\* non-empty paths
C8_TiebreakAsClaimed ==
    (/\ gr.pc = "tiebroken"
     /\ gr.current.recv_relationship = gr.new.recv_relationship
     /\ Len(gr.current.as_path) = Len(gr.new.as_path)) =>
        gr.result = IF ClaimedNeighborASN(gr.current.as_path)
                         <= ClaimedNeighborASN(gr.new.as_path)
                    THEN gr.current ELSE gr.new

-----------------------------------------------------------------------------
(* SpecValid: Policy.valid_ann applied to drawn announcements and settings *)

\* longest as_path drawn for valid_ann
MaxValidPathLen == 2

\* highest ASN drawn for valid_ann (0 is drawn as well)
MaxValidASN == 2

\* settings are drawn with at most this many enabled, with all enabled, and
\* with every combination of the ASPA family
MaxEnabled == 1

ValidPaths == SeqsOf(0..MaxValidASN, 1, MaxValidPathLen)

ValidSettingSets ==
    {S \in SUBSET ValiditySettings : Cardinality(S) <= MaxEnabled} \cup {ValiditySettings}
       \cup SUBSET {"ASPA", "ASPA_W_N", "ASRA"}

\* the verdicts of the extension checks: all pass, or exactly one fails
ValidExts ==
    {AllPass} \cup {[AllPass EXCEPT ![c] = FALSE] : c \in ExtChecks}

InitValid ==
    /\ TrialAtRest
    /\ gr = Idle
    /\ as_graph_json = Idle
    /\ call = Idle
    /\ most_specific_prefix_cache = Idle
    /\ dp = Idle
    /\ \E asn \in 1..MaxValidASN : \E path \in ValidPaths :
       \E from_rel \in {CUSTOMERS, PEERS, PROVIDERS} :
       \E S \in ValidSettingSets : \E ext \in ValidExts :
          va = [pc |-> "ready", asn |-> asn, S |-> S, ext |-> ext,
                ann |-> Announcement(PREFIX, path, path[1], ORIGIN),
                from_rel |-> from_rel, result |-> FALSE]

\* a call of Policy.valid_ann(ann, from_rel) at AS va.asn
VACheck ==
    /\ va.pc = "ready"
    /\ va' = [va EXCEPT !.pc = "checked",
                        !.result = valid_ann(va.asn, va.S, va.ext, va.ann, va.from_rel)]
    /\ UNCHANGED <<gr, dp, as_graph_json, call, most_specific_prefix_cache>>
    /\ UNCHANGED propVars

NextValid == VACheck

SpecValid == InitValid /\ [][NextValid]_vars

\* C10: valid_ann rejects every announcement whose as_path contains 0 or the
\* receiver's own ASN, for every from_rel and every setting combination
C10_BgpCheckDominates ==
    (/\ va.pc = "checked"
     /\ (0 \in Elems(va.ann.as_path) \/ va.asn \in Elems(va.ann.as_path)))
        => va.result = FALSE

\* C10 witness: with every setting enabled and every extension check passing,
\* a path that holds 0 but not the receiver has been rejected
C10_Witness ==
    /\ va.pc = "checked"
    /\ va.S = ValiditySettings
    /\ va.ext = AllPass
    /\ 0 \in Elems(va.ann.as_path)
    /\ va.asn \notin Elems(va.ann.as_path)
    /\ va.result = FALSE

\* the check of the ASPA family that the settings va.S select, by name in ext
AspaFamilyApplied ==
    {c \in {"ASPA", "ASPAwN", "ASRA"} :
        \/ c = "ASPA" /\ "ASPA" \in va.S /\ "ASRA" \notin va.S /\ "ASPA_W_N" \notin va.S
        \/ c = "ASPAwN" /\ "ASPA_W_N" \in va.S /\ "ASRA" \notin va.S
        \/ c = "ASRA" /\ "ASRA" \in va.S}

\* C25: at most one check of the ASPA family is selected, and an announcement
\* that passes the BGP check and fails one check of the family only (no other
\* check fails) is rejected exactly when that check is the selected one
C25_OneAspaFamilyCheck ==
    va.pc = "checked" =>
       /\ Cardinality(AspaFamilyApplied) <= 1
       /\ \A c \in {"ASPA", "ASPAwN", "ASRA"} :
             (/\ BGP_valid_ann(va.asn, va.ann, va.from_rel)
              /\ ~va.ext[c]
              /\ \A d \in ExtChecks \ {c} : va.ext[d])
                 => (va.result = (c \notin AspaFamilyApplied))

\* C25 witness: with ASPA and ASRA both enabled an announcement that would
\* fail the plain ASPA check has been accepted
C25_Witness ==
    /\ va.pc = "checked"
    /\ va.S = {"ASPA", "ASRA"}
    /\ ~va.ext["ASPA"]
    /\ BGP_valid_ann(va.asn, va.ann, va.from_rel)
    /\ va.result = TRUE

-----------------------------------------------------------------------------
(* SpecDP: the data-plane traceback over drawn RIB configurations *)

\* Outcomes; VICTIM_SUCCESS is the member that classifies the legitimate origins
ATTACKER_SUCCESS == "ATTACKER_SUCCESS"
VICTIM_SUCCESS == "LEGITIMATE_ORIGIN_SUCCESS"
DISCONNECTED == "DISCONNECTED"
DATA_PLANE_LOOP == "DATA_PLANE_LOOP"
UNDETERMINED == "UNDETERMINED"

\* the literal in `len(visited_asns) > 64`
MaxVisited == 64

\* number of ASes of the exhaustively drawn configurations
NumDPASes == 3

\* length of the ring configuration: long enough for the visited set to pass
\* MaxVisited before an AS is revisited
RingLen == MaxVisited + 2

\* recursion depth at which the model stops following a traceback
MaxDepth == MaxVisited + 3

\* get_most_specific_ann for a destination inside SUBPREFIX (and so inside
\* PREFIX): the longest matching prefix of the RIB
get_most_specific_ann(rib) ==
    IF rib[SUBPREFIX] # None THEN rib[SUBPREFIX] ELSE rib[PREFIX]

passes_sav(most_specific_ann) == TRUE

\* mutant: the end-of-traceback test comes before the attacker and origin tests
Determine_EndOfTracebackFirst(asn, attacker_asns, victim_asns, most_specific_ann, visited_asns) ==
    IF \/ most_specific_ann = None
       \/ Len(most_specific_ann.as_path) = 1
       \/ most_specific_ann.recv_relationship = ORIGIN
       \/ most_specific_ann.next_hop_asn = asn
    THEN DISCONNECTED
    ELSE IF asn \in attacker_asns THEN ATTACKER_SUCCESS
    ELSE IF asn \in victim_asns THEN VICTIM_SUCCESS
    ELSE IF asn \in visited_asns \/ Cardinality(visited_asns) > MaxVisited
    THEN DATA_PLANE_LOOP
    ELSE UNDETERMINED

\* mutant: the loop test is missing
Determine_NoLoopCheck(asn, attacker_asns, victim_asns, most_specific_ann, visited_asns) ==
    IF asn \in attacker_asns THEN ATTACKER_SUCCESS
    ELSE IF asn \in victim_asns THEN VICTIM_SUCCESS
    ELSE IF \/ most_specific_ann = None
            \/ Len(most_specific_ann.as_path) = 1
            \/ most_specific_ann.recv_relationship = ORIGIN
            \/ most_specific_ann.next_hop_asn = asn
    THEN DISCONNECTED
    ELSE UNDETERMINED

\* mutant: only an AS without a route ends the traceback
Determine_OnlyMissingRouteEnds(asn, attacker_asns, victim_asns, most_specific_ann, visited_asns) ==
    IF asn \in attacker_asns THEN ATTACKER_SUCCESS
    ELSE IF asn \in victim_asns THEN VICTIM_SUCCESS
    ELSE IF most_specific_ann = None THEN DISCONNECTED
    ELSE IF asn \in visited_asns \/ Cardinality(visited_asns) > MaxVisited
    THEN DATA_PLANE_LOOP
    ELSE UNDETERMINED

_determine_data_plane_outcome(asn, attacker_asns, victim_asns, most_specific_ann, visited_asns) ==
    IF asn \in attacker_asns THEN ATTACKER_SUCCESS
    ELSE IF asn \in victim_asns THEN VICTIM_SUCCESS
    ELSE IF \/ most_specific_ann = None
            \/ Len(most_specific_ann.as_path) = 1
            \/ most_specific_ann.recv_relationship = ORIGIN
            \/ most_specific_ann.next_hop_asn = asn
            \/ ~passes_sav(most_specific_ann)
    THEN DISCONNECTED
    ELSE IF asn \in visited_asns \/ Cardinality(visited_asns) > MaxVisited
    THEN DATA_PLANE_LOOP
    ELSE UNDETERMINED

NextASN(asn, n) == (asn % n) + 1

DPRib(ann, sub_ann) == [p \in Prefixes |-> IF p = PREFIX THEN ann ELSE sub_ann]

\* a route of asn learned from neighbor nbr
DPLearned(prefix, asn, nbr) == Announcement(prefix, <<asn, nbr>>, nbr, CUSTOMERS)

\* the RIBs drawn for an AS: empty; its own seeded prefix; a seeded forged-origin
\* path; a route learned from any other AS; its own prefix beside a learned
\* more specific one
DPRibs(asn, n) ==
    {DPRib(None, None),
     DPRib(Announcement(PREFIX, <<asn>>, 0, ORIGIN), None),
     DPRib(Announcement(PREFIX, <<asn, NextASN(asn, n)>>, asn, ORIGIN), None),
     DPRib(Announcement(PREFIX, <<asn>>, 0, ORIGIN),
           DPLearned(SUBPREFIX, asn, NextASN(asn, n)))}
    \cup {DPRib(DPLearned(PREFIX, asn, nbr), None) : nbr \in (1..n) \ {asn}}

DPStart(n, attacker_asns, victim_asns, rib) ==
    [pc |-> "run", n |-> n, attacker_asns |-> attacker_asns,
     victim_asns |-> victim_asns, rib |-> rib,
     outcomes |-> [a \in 1..n |-> "unset"],
     visited_asns |-> {}, stack |-> <<>>, ret |-> "none"]

InitDP ==
    /\ TrialAtRest
    /\ gr = Idle
    /\ as_graph_json = Idle
    /\ call = Idle
    /\ most_specific_prefix_cache = Idle
    /\ va = Idle
    /\ \/ \E attacker_asns \in {{}, {NumDPASes}} : \E victim_asns \in {{}, {1}} :
          \E rib \in [1..NumDPASes -> UNION {DPRibs(a, NumDPASes) : a \in 1..NumDPASes}] :
             /\ \A a \in 1..NumDPASes : rib[a] \in DPRibs(a, NumDPASes)
             /\ dp = DPStart(NumDPASes, attacker_asns, victim_asns, rib)
       \/ dp = DPStart(RingLen, {}, {},
                       [a \in 1..RingLen |->
                           DPRib(DPLearned(PREFIX, a, NextASN(a, RingLen)), None)])

DPTop == dp.stack[Len(dp.stack)]

DPPop == SubSeq(dp.stack, 1, Len(dp.stack) - 1)

DPOutcomeAtTop ==
    _determine_data_plane_outcome(DPTop, dp.attacker_asns, dp.victim_asns,
                                  get_most_specific_ann(dp.rib[DPTop]),
                                  dp.visited_asns)

\* get_as_outcomes_for_data_plane_packet: the loop takes the next AS, in any
\* order, with a fresh visited set (an AS that has its outcome returns at once)
DPNextAS ==
    /\ dp.pc = "run"
    /\ dp.stack = <<>>
    /\ \E asn \in 1..dp.n :
          /\ dp.outcomes[asn] = "unset"
          /\ dp' = [dp EXCEPT !.stack = <<asn>>, !.visited_asns = {}, !.ret = "none"]
    /\ UNCHANGED <<gr, va, as_graph_json, call, most_specific_prefix_cache>>
    /\ UNCHANGED propVars

\* store_as_data_plane_outcomes: the AS already has an outcome
DPReturnCached ==
    /\ dp.pc = "run"
    /\ dp.stack # <<>>
    /\ dp.ret = "none"
    /\ dp.outcomes[DPTop] # "unset"
    /\ dp' = [dp EXCEPT !.ret = dp.outcomes[DPTop], !.stack = DPPop]
    /\ UNCHANGED <<gr, va, as_graph_json, call, most_specific_prefix_cache>>
    /\ UNCHANGED propVars

\* store_as_data_plane_outcomes: UNDETERMINED, recurse into the next hop
DPRecurse ==
    /\ dp.pc = "run"
    /\ dp.stack # <<>>
    /\ dp.ret = "none"
    /\ dp.outcomes[DPTop] = "unset"
    /\ DPOutcomeAtTop = UNDETERMINED
    /\ Len(dp.stack) < MaxDepth
    /\ dp' = [dp EXCEPT !.visited_asns = @ \cup {DPTop},
                        !.stack = Append(@, get_most_specific_ann(dp.rib[DPTop]).next_hop_asn)]
    /\ UNCHANGED <<gr, va, as_graph_json, call, most_specific_prefix_cache>>
    /\ UNCHANGED propVars

\* store_as_data_plane_outcomes: the outcome is determined at this AS
DPDecide ==
    /\ dp.pc = "run"
    /\ dp.stack # <<>>
    /\ dp.ret = "none"
    /\ dp.outcomes[DPTop] = "unset"
    /\ DPOutcomeAtTop # UNDETERMINED
    /\ dp' = [dp EXCEPT !.outcomes[DPTop] = DPOutcomeAtTop,
                        !.ret = DPOutcomeAtTop, !.stack = DPPop]
    /\ UNCHANGED <<gr, va, as_graph_json, call, most_specific_prefix_cache>>
    /\ UNCHANGED propVars

\* store_as_data_plane_outcomes: the recursive call has returned
DPUnwind ==
    /\ dp.pc = "run"
    /\ dp.stack # <<>>
    /\ dp.ret # "none"
    /\ dp' = [dp EXCEPT !.outcomes[DPTop] = dp.ret, !.stack = DPPop]
    /\ UNCHANGED <<gr, va, as_graph_json, call, most_specific_prefix_cache>>
    /\ UNCHANGED propVars

\* get_as_outcomes_for_data_plane_packet returns outcomes
DPFinish ==
    /\ dp.pc = "run"
    /\ dp.stack = <<>>
    /\ \A asn \in 1..dp.n : dp.outcomes[asn] # "unset"
    /\ dp' = [dp EXCEPT !.pc = "done"]
    /\ UNCHANGED <<gr, va, as_graph_json, call, most_specific_prefix_cache>>
    /\ UNCHANGED propVars

NextDP ==
    \/ DPNextAS
    \/ DPReturnCached
    \/ DPRecurse
    \/ DPDecide
    \/ DPUnwind
    \/ DPFinish

SpecDP == InitDP /\ [][NextDP]_vars

SpecDPFair == SpecDP /\ WF_vars(NextDP)

\* C5: when get_as_outcomes_for_data_plane_packet has returned, every attacker
\* AS has ATTACKER_SUCCESS and every legitimate origin AS has
\* LEGITIMATE_ORIGIN_SUCCESS, whatever the RIBs and the visiting order
C5_AttackersAndOriginsClassified ==
    dp.pc = "done" =>
        /\ \A asn \in dp.attacker_asns : dp.outcomes[asn] = ATTACKER_SUCCESS
        /\ \A asn \in dp.victim_asns : dp.outcomes[asn] = VICTIM_SUCCESS

\* C5 witness: the traceback has returned with an attacker that holds a learned
\* route and a legitimate origin that holds its seeded route, and a third AS
\* routed to the attacker
C5_Witness ==
    /\ dp.pc = "done"
    /\ dp.attacker_asns # {}
    /\ dp.victim_asns # {}
    /\ \A asn \in dp.attacker_asns :
          /\ get_most_specific_ann(dp.rib[asn]) # None
          /\ get_most_specific_ann(dp.rib[asn]).recv_relationship # ORIGIN
          /\ dp.outcomes[asn] = ATTACKER_SUCCESS
    /\ \A asn \in dp.victim_asns :
          /\ get_most_specific_ann(dp.rib[asn]) # None
          /\ get_most_specific_ann(dp.rib[asn]).recv_relationship = ORIGIN
          /\ dp.outcomes[asn] = VICTIM_SUCCESS
    /\ \E asn \in (1..dp.n) \ (dp.attacker_asns \cup dp.victim_asns) :
          dp.outcomes[asn] = ATTACKER_SUCCESS

\* C6: the traceback terminates from every start AS on every configuration,
\* next-hop cycles included
C6_TracebackTerminates == <>(dp.pc = "done")

\* C6 witness: the traceback has returned on a configuration whose next hops
\* form a cycle, and the ASes of the cycle have DATA_PLANE_LOOP
C6_Witness ==
    /\ dp.pc = "done"
    /\ \E a \in 1..dp.n : \E b \in (1..dp.n) \ {a} :
          /\ get_most_specific_ann(dp.rib[a]) # None
          /\ get_most_specific_ann(dp.rib[b]) # None
          /\ get_most_specific_ann(dp.rib[a]).next_hop_asn = b
          /\ get_most_specific_ann(dp.rib[b]).next_hop_asn = a
          /\ dp.outcomes[a] = DATA_PLANE_LOOP
          /\ dp.outcomes[b] = DATA_PLANE_LOOP

\* the traceback ends at asn: it has no route for the destination, or its most
\* specific route has a one-element path, was seeded, or points at asn itself
EndOfTraceback(asn) ==
    LET most_specific_ann == get_most_specific_ann(dp.rib[asn])
    IN  \/ most_specific_ann = None
        \/ Len(most_specific_ann.as_path) = 1
        \/ most_specific_ann.recv_relationship = ORIGIN
        \/ most_specific_ann.next_hop_asn = asn

\* the ASes that are neither attacker nor legitimate origin
DPOthers == (1..dp.n) \ (dp.attacker_asns \cup dp.victim_asns)

\* C30 as stated: such an AS is DISCONNECTED if and only if the traceback ends
\* at it; otherwise, unless it has DATA_PLANE_LOOP, it has the outcome of its
\* next hop; no AS is left UNDETERMINED
C30_DisconnectedIffEndOfTraceback ==
    dp.pc = "done" =>
        /\ \A u \in DPOthers :
              /\ (dp.outcomes[u] = DISCONNECTED) <=> EndOfTraceback(u)
              /\ (~EndOfTraceback(u) /\ dp.outcomes[u] # DATA_PLANE_LOOP) =>
                   dp.outcomes[u] =
                      dp.outcomes[get_most_specific_ann(dp.rib[u]).next_hop_asn]
        /\ \A u \in 1..dp.n : dp.outcomes[u] \notin {UNDETERMINED, "unset"}

\* C30 amended: an AS at which the traceback ends is DISCONNECTED; any other
\* has DATA_PLANE_LOOP or the outcome of its next hop, which can be
\* DISCONNECTED too; this for every order of the start ASes, and no AS is left
\* UNDETERMINED
C30_OutcomeOfNextHop ==
    dp.pc = "done" =>
        /\ \A u \in DPOthers :
              IF EndOfTraceback(u)
              THEN dp.outcomes[u] = DISCONNECTED
              ELSE \/ dp.outcomes[u] = DATA_PLANE_LOOP
                   \/ dp.outcomes[u] =
                         dp.outcomes[get_most_specific_ann(dp.rib[u]).next_hop_asn]
        /\ \A u \in 1..dp.n : dp.outcomes[u] \notin {UNDETERMINED, "unset"}

\* C30 witness: the traceback has returned where an AS with a learned route is
\* DISCONNECTED because its next hop, no attacker and no origin, has no route
C30_Witness ==
    /\ dp.pc = "done"
    /\ \E u \in DPOthers :
          LET next_hop_asn == get_most_specific_ann(dp.rib[u]).next_hop_asn
          IN  /\ ~EndOfTraceback(u)
              /\ next_hop_asn \in DPOthers
              /\ get_most_specific_ann(dp.rib[next_hop_asn]) = None
              /\ dp.outcomes[next_hop_asn] = DISCONNECTED
              /\ dp.outcomes[u] = DISCONNECTED

-----------------------------------------------------------------------------
(* SpecOpen: one AS of the example graph receives whatever its environment  *)
(* sends and processes its queue                                            *)

\* the AS under test: two customers (1, 2), one peer (4), no provider
OpenReceiver == 3

\* longest receive queue of a prefix filled before it is processed
MaxOpenQueue == 2

\* the announcements sent to the AS under test: paths through a customer (1) and
\* through an AS that is not a neighbor (5), with the next hop a customer, the
\* peer, or not a neighbor
OpenAnns ==
    {Announcement(PREFIX, path, next_hop_asn, CUSTOMERS) :
        path \in {<<1>>, <<5>>, <<1, 5>>}, next_hop_asn \in {1, 4, 5}}

InitOpen ==
    /\ as_graph = ExampleGraph
    /\ trial = 0
    /\ settings \in {SettingsAt({}, {}),
                     SettingsAt(DOMAIN ExampleGraph, {"ENFORCE_FIRST_AS"})}
    /\ roas = {}
    /\ local_rib = [a \in DOMAIN ExampleGraph |-> NoPrefixAnn]
    /\ recv_q = [a \in DOMAIN ExampleGraph |-> EmptyQueue]
    /\ sweep = "open"
    /\ rank = 0
    /\ stage = "send"
    /\ pending = {}
    /\ round = 0
    /\ err = "none"
    /\ cmpLog = {}
    /\ rejLog = {}
    /\ gr = Idle
    /\ as_graph_json = Idle
    /\ call = Idle
    /\ most_specific_prefix_cache = Idle
    /\ va = Idle
    /\ dp = Idle

\* Policy.receive_ann at the AS under test
receive_ann(asn, ann) ==
    /\ sweep = "open"
    /\ err = "none"
    /\ Len(recv_q[asn][ann.prefix]) < MaxOpenQueue
    /\ recv_q' = [recv_q EXCEPT ![asn][ann.prefix] = Append(@, ann)]
    /\ cmpLog' = {}
    /\ rejLog' = {}
    /\ UNCHANGED <<as_graph, trial, settings, roas, local_rib, sweep, rank, stage, pending,
                   round, err>>
    /\ UNCHANGED <<gr, va, dp, as_graph_json, call, most_specific_prefix_cache>>

\* Policy.process_incoming_anns(from_rel) at the AS under test
OpenProcess(asn, from_rel) ==
    LET raised == RaisedWhileProcessing(asn, from_rel)
    IN  /\ sweep = "open"
        /\ err = "none"
        /\ \E p \in Prefixes : recv_q[asn][p] # <<>>
        /\ cmpLog' = UNION {ComparisonsOfQueue(asn, settings[asn], local_rib[asn][p],
                                               recv_q[asn][p], 1, from_rel) :
                              p \in Prefixes}
        /\ rejLog' = RejectedOfQueues(asn, from_rel)
        /\ local_rib' = [local_rib EXCEPT ![asn] = RibAfterProcessing(asn, from_rel)]
        /\ IF raised = {}
           THEN /\ recv_q' = [recv_q EXCEPT ![asn] = EmptyQueue]
                /\ UNCHANGED err
           ELSE /\ err' = CHOOSE e \in raised : TRUE
                /\ UNCHANGED recv_q
        /\ UNCHANGED <<as_graph, trial, settings, roas, sweep, rank, stage, pending, round>>
        /\ UNCHANGED <<gr, va, dp, as_graph_json, call, most_specific_prefix_cache>>

NextOpen ==
    \/ \E ann \in OpenAnns : receive_ann(OpenReceiver, ann)
    \/ \E from_rel \in {CUSTOMERS, PEERS, PROVIDERS} : OpenProcess(OpenReceiver, from_rel)

SpecOpen == InitOpen /\ [][NextOpen]_vars

\* C12: with Enforce-First-AS enabled, every installed route came with a next
\* hop that is the first ASN of the received path and a neighbor of the
\* receiver, and every queued announcement that fails either test is rejected
C12_EnforceFirstAS ==
    \A asn \in DOMAIN as_graph :
        "ENFORCE_FIRST_AS" \in settings[asn] =>
            /\ \A ann \in RibAnns(asn) :
                  /\ ann.next_hop_asn = ann.as_path[2]
                  /\ ann.next_hop_asn \in neighbor_asns(as_graph, asn)
            /\ \A ann \in QueuedAnns(asn) :
                  (ann.next_hop_asn # ann.as_path[1]
                   \/ ann.next_hop_asn \notin neighbor_asns(as_graph, asn))
                      => ~valid_ann(asn, settings[asn], PolicyExt(asn, ann, CUSTOMERS),
                                    ann, CUSTOMERS)

\* C12 witness: with Enforce-First-AS enabled the AS under test has drained a
\* queue that held an announcement from a next hop that is not a neighbor (it
\* was rejected) and one from its customer (it is installed)
C12_Witness ==
    /\ "ENFORCE_FIRST_AS" \in settings[OpenReceiver]
    /\ \E ann \in rejLog :
          /\ ann.next_hop_asn = ann.as_path[1]
          /\ ann.next_hop_asn \notin neighbor_asns(as_graph, OpenReceiver)
    /\ local_rib[OpenReceiver][PREFIX] # None
    /\ local_rib[OpenReceiver][PREFIX].next_hop_asn = 1

-----------------------------------------------------------------------------
(* Graph setup: ASGraphUtils.add_extra_setup on drawn graph data *)

\* number of ASes of the drawn graph data
NumSetupASes == 3

SetupASNs == 1..NumSetupASes

\* the provider links (customer, provider) graph data can hold
SetupLinks == {l \in SetupASNs \X SetupASNs : l[1] # l[2]}

\* graph_data["ases"] for a set of links, written into the provider_asns
\* lists, the customer_asns lists, or both
SetupAses(links, sides) ==
    [a \in SetupASNs |->
        [asn |-> a,
         provider_asns |-> IF sides = "customer_asns" THEN {}
                           ELSE {l[2] : l \in {k \in links : k[1] = a}},
         customer_asns |-> IF sides = "provider_asns" THEN {}
                           ELSE {l[1] : l \in {k \in links : k[2] = a}}]]

\* a call of one of the recursive helpers: its AS, its rank argument and the
\* neighbors its for loop has not reached yet
Frame(asn, r, rest) == [asn |-> asn, rank |-> r, rest |-> rest]

NoEntries == [a \in {} |-> {}]

SetupStart(ases) ==
    [pc |-> "cycles",
     ases |-> ases,
     key |-> "provider_asns",
     visited |-> {},
     rec_stack |-> {},
     stack |-> <<>>,
     todo |-> {},
     cone_dict |-> NoEntries,
     provider_cone_asns |-> NoEntries,
     propagation_rank |-> NoEntries,
     cycles_detected |-> "unset",
     propagation_rank_asns |-> <<>>,
     extra_setup_complete |-> FALSE]

InitSetup ==
    /\ TrialAtRest
    /\ gr = Idle
    /\ va = Idle
    /\ dp = Idle
    /\ call = Idle
    /\ most_specific_prefix_cache = Idle
    /\ \E links \in SUBSET SetupLinks :
       \E sides \in {"both", "provider_asns", "customer_asns"} :
          as_graph_json = SetupStart(SetupAses(links, sides))

SetupTop == as_graph_json.stack[Len(as_graph_json.stack)]

SetupPop == SubSeq(as_graph_json.stack, 1, Len(as_graph_json.stack) - 1)

\* the top frame with neighbor n taken out of its for loop
SetupAdvance(n) ==
    [as_graph_json.stack EXCEPT ![Len(as_graph_json.stack)].rest = @ \ {n}]

\* mutant of the test of line 61: every visited neighbor closes a cycle
ClosesCycle_VisitedOnly(neighbor_asn, visited, rec_stack) ==
    neighbor_asn \in visited

\* _validate_no_cycles_helper, lines 57-62: a neighbor that is visited and
\* still on the recursion stack closes a cycle
ClosesCycle(neighbor_asn, visited, rec_stack) ==
    neighbor_asn \in visited /\ neighbor_asn \in rec_stack

\* check_for_cycles: the for loop over the ASes calls the helper on an AS that
\* is not visited yet
CyclesNextAS ==
    /\ as_graph_json.pc = "cycles"
    /\ as_graph_json.stack = <<>>
    /\ \E asn \in SetupASNs \ as_graph_json.visited :
          as_graph_json' =
             [as_graph_json EXCEPT
                !.visited = @ \cup {asn},
                !.rec_stack = @ \cup {asn},
                !.stack = <<Frame(asn, 0, as_graph_json.ases[asn][as_graph_json.key])>>]
    /\ UNCHANGED <<gr, va, dp, call, most_specific_prefix_cache>>
    /\ UNCHANGED propVars

\* _validate_no_cycles_helper: one turn of the loop over as_info[key]
CyclesNeighbor ==
    /\ as_graph_json.pc = "cycles"
    /\ as_graph_json.stack # <<>>
    /\ \E neighbor_asn \in SetupTop.rest :
          as_graph_json' =
             IF neighbor_asn \notin as_graph_json.visited
             THEN [as_graph_json EXCEPT
                     !.visited = @ \cup {neighbor_asn},
                     !.rec_stack = @ \cup {neighbor_asn},
                     !.stack = Append(SetupAdvance(neighbor_asn),
                                      Frame(neighbor_asn, 0,
                                            as_graph_json.ases[neighbor_asn][as_graph_json.key]))]
             ELSE IF ClosesCycle(neighbor_asn, as_graph_json.visited,
                                 as_graph_json.rec_stack)
             THEN [as_graph_json EXCEPT !.pc = "CycleError"]
             ELSE [as_graph_json EXCEPT !.stack = SetupAdvance(neighbor_asn)]
    /\ UNCHANGED <<gr, va, dp, call, most_specific_prefix_cache>>
    /\ UNCHANGED propVars

\* _validate_no_cycles_helper: the loop is over, rec_stack.remove(asn)
CyclesReturn ==
    /\ as_graph_json.pc = "cycles"
    /\ as_graph_json.stack # <<>>
    /\ SetupTop.rest = {}
    /\ as_graph_json' = [as_graph_json EXCEPT
                           !.rec_stack = @ \ {SetupTop.asn},
                           !.stack = SetupPop]
    /\ UNCHANGED <<gr, va, dp, call, most_specific_prefix_cache>>
    /\ UNCHANGED propVars

\* check_for_cycles: the provider_asns pass is over, the customer_asns pass
\* starts with fresh visited and rec_stack
CyclesNextKey ==
    /\ as_graph_json.pc = "cycles"
    /\ as_graph_json.stack = <<>>
    /\ as_graph_json.visited = SetupASNs
    /\ as_graph_json.key = "provider_asns"
    /\ as_graph_json' = [as_graph_json EXCEPT
                           !.key = "customer_asns",
                           !.visited = {},
                           !.rec_stack = {}]
    /\ UNCHANGED <<gr, va, dp, call, most_specific_prefix_cache>>
    /\ UNCHANGED propVars

\* check_for_cycles: both passes are over, cycles_detected = False; then
\* add_provider_cone_asns starts with an empty cone_dict
CyclesDone ==
    /\ as_graph_json.pc = "cycles"
    /\ as_graph_json.stack = <<>>
    /\ as_graph_json.visited = SetupASNs
    /\ as_graph_json.key = "customer_asns"
    /\ as_graph_json' = [as_graph_json EXCEPT
                           !.pc = "cone",
                           !.cycles_detected = "False",
                           !.cone_dict = NoEntries]
    /\ UNCHANGED <<gr, va, dp, call, most_specific_prefix_cache>>
    /\ UNCHANGED propVars

\* mutant of _get_cone_helper: the neighbor's own cone is not taken over
ConeAfterNeighbor_NoUpdate(cone_dict, as_asn, neighbor_asn) == cone_dict

\* _get_cone_helper, line 100: cone_dict[as_asn].update(cone_dict[neighbor_asn])
ConeAfterNeighbor(cone_dict, as_asn, neighbor_asn) ==
    [cone_dict EXCEPT ![as_asn] = @ \cup cone_dict[neighbor_asn]]

\* add_provider_cone_asns: the for loop over the ASes; an AS already in
\* cone_dict gets its memoised cone, another one starts the recursion
ConeNextAS ==
    /\ as_graph_json.pc = "cone"
    /\ as_graph_json.stack = <<>>
    /\ \E asn \in SetupASNs \ DOMAIN as_graph_json.provider_cone_asns :
          as_graph_json' =
             IF asn \in DOMAIN as_graph_json.cone_dict
             THEN [as_graph_json EXCEPT
                     !.provider_cone_asns = (asn :> as_graph_json.cone_dict[asn]) @@ @]
             ELSE [as_graph_json EXCEPT
                     !.cone_dict = (asn :> {}) @@ @,
                     !.stack = <<Frame(asn, 0, as_graph_json.ases[asn].provider_asns)>>]
    /\ UNCHANGED <<gr, va, dp, call, most_specific_prefix_cache>>
    /\ UNCHANGED propVars

\* _get_cone_helper: one turn of the loop over as_info[rel_key], up to the
\* recursive call if there is one
ConeNeighbor ==
    /\ as_graph_json.pc = "cone"
    /\ as_graph_json.stack # <<>>
    /\ \E neighbor_asn \in SetupTop.rest :
          LET added == [as_graph_json.cone_dict EXCEPT ![SetupTop.asn] = @ \cup {neighbor_asn}]
          IN  as_graph_json' =
                 IF neighbor_asn \notin DOMAIN as_graph_json.cone_dict
                 THEN [as_graph_json EXCEPT
                         !.cone_dict = (neighbor_asn :> {}) @@ added,
                         !.stack = Append(SetupAdvance(neighbor_asn),
                                          Frame(neighbor_asn, 0,
                                                as_graph_json.ases[neighbor_asn].provider_asns))]
                 ELSE [as_graph_json EXCEPT
                         !.cone_dict = ConeAfterNeighbor(added, SetupTop.asn, neighbor_asn),
                         !.stack = SetupAdvance(neighbor_asn)]
    /\ UNCHANGED <<gr, va, dp, call, most_specific_prefix_cache>>
    /\ UNCHANGED propVars

\* _get_cone_helper returns: the caller takes over the cone (line 100), or
\* add_provider_cone_asns stores it (line 79)
ConeReturn ==
    /\ as_graph_json.pc = "cone"
    /\ as_graph_json.stack # <<>>
    /\ SetupTop.rest = {}
    /\ as_graph_json' =
          IF Len(as_graph_json.stack) = 1
          THEN [as_graph_json EXCEPT
                  !.provider_cone_asns =
                      (SetupTop.asn :> as_graph_json.cone_dict[SetupTop.asn]) @@ @,
                  !.stack = <<>>]
          ELSE [as_graph_json EXCEPT
                  !.cone_dict = ConeAfterNeighbor(as_graph_json.cone_dict,
                                                  SetupPop[Len(SetupPop)].asn, SetupTop.asn),
                  !.stack = SetupPop]
    /\ UNCHANGED <<gr, va, dp, call, most_specific_prefix_cache>>
    /\ UNCHANGED propVars

\* add_provider_cone_asns is over; assign_as_propagation_rank starts
ConeDone ==
    /\ as_graph_json.pc = "cone"
    /\ as_graph_json.stack = <<>>
    /\ DOMAIN as_graph_json.provider_cone_asns = SetupASNs
    /\ as_graph_json' = [as_graph_json EXCEPT !.pc = "rank", !.todo = SetupASNs]
    /\ UNCHANGED <<gr, va, dp, call, most_specific_prefix_cache>>
    /\ UNCHANGED propVars

\* _assign_ranks_helper, line 121: the rank is None or lower than the argument
RankRises(propagation_rank, asn, r) ==
    asn \notin DOMAIN propagation_rank \/ propagation_rank[asn] < r

\* assign_as_propagation_rank: one turn of the for loop, which sets the rank
\* of the AS to None and calls the helper with rank 0
RankNextAS ==
    /\ as_graph_json.pc = "rank"
    /\ as_graph_json.stack = <<>>
    /\ \E asn \in as_graph_json.todo :
          as_graph_json' =
             [as_graph_json EXCEPT
                !.todo = @ \ {asn},
                !.propagation_rank = (asn :> 0) @@ @,
                !.stack = <<Frame(asn, 0, as_graph_json.ases[asn].provider_asns)>>]
    /\ UNCHANGED <<gr, va, dp, call, most_specific_prefix_cache>>
    /\ UNCHANGED propVars

\* _assign_ranks_helper: one turn of the loop over provider_asns, the call
\* with rank + 1 up to the test of line 121
RankProvider ==
    /\ as_graph_json.pc = "rank"
    /\ as_graph_json.stack # <<>>
    /\ \E provider_asn \in SetupTop.rest :
          as_graph_json' =
             IF RankRises(as_graph_json.propagation_rank, provider_asn, SetupTop.rank + 1)
             THEN [as_graph_json EXCEPT
                     !.propagation_rank = (provider_asn :> SetupTop.rank + 1) @@ @,
                     !.stack = Append(SetupAdvance(provider_asn),
                                      Frame(provider_asn, SetupTop.rank + 1,
                                            as_graph_json.ases[provider_asn].provider_asns))]
             ELSE [as_graph_json EXCEPT !.stack = SetupAdvance(provider_asn)]
    /\ UNCHANGED <<gr, va, dp, call, most_specific_prefix_cache>>
    /\ UNCHANGED propVars

RankReturn ==
    /\ as_graph_json.pc = "rank"
    /\ as_graph_json.stack # <<>>
    /\ SetupTop.rest = {}
    /\ as_graph_json' = [as_graph_json EXCEPT !.stack = SetupPop]
    /\ UNCHANGED <<gr, va, dp, call, most_specific_prefix_cache>>
    /\ UNCHANGED propVars

\* sorted(rank)
RECURSIVE SortedList(_)
SortedList(S) ==
    IF S = {} THEN <<>>
    ELSE LET least == CHOOSE x \in S : \A y \in S : x <= y
         IN  <<least>> \o SortedList(S \ {least})

\* assign_as_graph_propagation_ranks: the ASes of each rank, sorted
RankLists(propagation_rank) ==
    LET max_rank == MaxOf({propagation_rank[a] : a \in DOMAIN propagation_rank})
    IN  [i \in 1..(max_rank + 1) |->
            SortedList({a \in DOMAIN propagation_rank : propagation_rank[a] = i - 1})]

\* assign_as_propagation_rank is over; assign_as_graph_propagation_ranks and
\* the end of add_extra_setup
RankDone ==
    /\ as_graph_json.pc = "rank"
    /\ as_graph_json.stack = <<>>
    /\ as_graph_json.todo = {}
    /\ as_graph_json' = [as_graph_json EXCEPT
                           !.pc = "done",
                           !.propagation_rank_asns = RankLists(as_graph_json.propagation_rank),
                           !.extra_setup_complete = TRUE]
    /\ UNCHANGED <<gr, va, dp, call, most_specific_prefix_cache>>
    /\ UNCHANGED propVars

NextSetup ==
    \/ CyclesNextAS
    \/ CyclesNeighbor
    \/ CyclesReturn
    \/ CyclesNextKey
    \/ CyclesDone
    \/ ConeNextAS
    \/ ConeNeighbor
    \/ ConeReturn
    \/ ConeDone
    \/ RankNextAS
    \/ RankProvider
    \/ RankReturn
    \/ RankDone

SpecSetup == InitSetup /\ [][NextSetup]_vars

SpecSetupFair == SpecSetup /\ WF_vars(NextSetup)

\* the ASes reached from the ASes of S by following edges of succ
RECURSIVE Closure(_, _)
Closure(succ, S) ==
    LET T == S \cup UNION {succ[x] : x \in S}
    IN  IF T = S THEN S ELSE Closure(succ, T)

\* the ASes reached from asn by one or more edges of succ
ReachedFrom(succ, asn) == Closure(succ, succ[asn])

HasCycle(succ) == \E a \in DOMAIN succ : a \in ReachedFrom(succ, a)

EdgesOf(ases, key) == [a \in DOMAIN ases |-> ases[a][key]]

Acyclic(ases) ==
    /\ ~HasCycle(EdgesOf(ases, "provider_asns"))
    /\ ~HasCycle(EdgesOf(ases, "customer_asns"))

\* add_extra_setup has ended normally
SetupComplete == as_graph_json.pc = "done"

\* C18: after add_extra_setup on an acyclic graph every provider's rank is at
\* least one more than its customer's, and an AS without customers has rank 0
C18_RankMonotone ==
    SetupComplete =>
       \A c \in SetupASNs :
          /\ \A p \in as_graph_json.ases[c].provider_asns :
                as_graph_json.propagation_rank[p] >= as_graph_json.propagation_rank[c] + 1
          /\ as_graph_json.ases[c].customer_asns = {} =>
                as_graph_json.propagation_rank[c] = 0

\* C19: check_for_cycles raises CycleError only when the provider_asns edges
\* or the customer_asns edges hold a directed cycle, gets past no such cycle,
\* records cycles_detected = False when it completes, and always ends
C19_CycleErrorIffCycle ==
    /\ [](as_graph_json.pc = "CycleError" => ~Acyclic(as_graph_json.ases))
    /\ [](as_graph_json.pc \in {"cone", "rank", "done"} =>
             Acyclic(as_graph_json.ases) /\ as_graph_json.cycles_detected = "False")
    /\ [](as_graph_json.pc = "cycles" => as_graph_json.cycles_detected = "unset")
    /\ <>(as_graph_json.pc # "cycles")

\* C19 witness: a cycle that only the customer_asns lists hold has raised
\* CycleError in the second pass
C19_Witness ==
    /\ as_graph_json.pc = "CycleError"
    /\ as_graph_json.key = "customer_asns"
    /\ ~HasCycle(EdgesOf(as_graph_json.ases, "provider_asns"))
    /\ HasCycle(EdgesOf(as_graph_json.ases, "customer_asns"))

\* C19 witness of the other side: graph data with a provider reached along two
\* chains has passed both passes
C19_WitnessAcyclic ==
    /\ as_graph_json.pc = "cone"
    /\ as_graph_json.cycles_detected = "False"
    /\ as_graph_json.ases[1].provider_asns = {2, 3}
    /\ as_graph_json.ases[2].provider_asns = {3}

\* C20: once add_provider_cone_asns is over, the provider cone of every AS is
\* the set of ASes reached from it by one or more provider edges
C20_ProviderConeIsClosure ==
    as_graph_json.pc \in {"rank", "done"} =>
       \A a \in SetupASNs :
          as_graph_json.provider_cone_asns[a]
             = ReachedFrom(EdgesOf(as_graph_json.ases, "provider_asns"), a)

\* C20 witness: AS 3 joined the cone of AS 1 through AS 2 only
C20_Witness ==
    /\ as_graph_json.pc = "rank"
    /\ as_graph_json.ases[1].provider_asns = {2}
    /\ as_graph_json.ases[2].provider_asns = {3}
    /\ as_graph_json.provider_cone_asns[1] = {2, 3}

-----------------------------------------------------------------------------
(* Announcement.__init__ on drawn arguments *)

\* longest as_path drawn for the constructor
MaxAnnPathLen == 3

\* highest ASN drawn for the constructor (0 is drawn as a next hop as well)
MaxAnnASN == 2

\* an optional argument: <<>> is None, <<x>> is the value x
Given(x) == <<x>>
NotGiven == <<>>

\* Python's truth value of an optional integer
Truthy(opt) == opt # NotGiven /\ opt[1] # 0

\* Announcement.__init__: the next hop after `next_hop_asn or as_path[-1]`
\* and the `is None` branch that follows it, or the exception raised
Announcement__init__(prefix, as_path, next_hop_asn, recv_relationship) ==
    LET first == IF Truthy(next_hop_asn) THEN next_hop_asn
                 ELSE Given(as_path[Len(as_path)])
    IN  IF first = NotGiven
        THEN IF Len(as_path) = 1
             THEN Announcement(prefix, as_path, as_path[1], recv_relationship)
             ELSE IF Len(as_path) > 1 THEN Raised("ValueError")
             ELSE Raised("NotImplementedError")
        ELSE [Announcement(prefix, as_path, first[1], recv_relationship)
                 EXCEPT !.next_hop_asn = first[1]]

InitAnn ==
    /\ TrialAtRest
    /\ gr = Idle
    /\ va = Idle
    /\ dp = Idle
    /\ as_graph_json = Idle
    /\ most_specific_prefix_cache = Idle
    /\ \E prefix \in Prefixes :
       \E as_path \in SeqsOf(1..MaxAnnASN, 1, MaxAnnPathLen) :
       \E next_hop_asn \in {NotGiven} \cup {Given(n) : n \in 0..MaxAnnASN} :
          call = [pc |-> "ready", prefix |-> prefix, as_path |-> as_path,
                  next_hop_asn |-> next_hop_asn, result |-> None]

\* the call Announcement(prefix, as_path, next_hop_asn)
AnnConstruct ==
    /\ call.pc = "ready"
    /\ call' = [call EXCEPT
                  !.pc = "done",
                  !.result = Announcement__init__(call.prefix, call.as_path,
                                                  call.next_hop_asn, ORIGIN)]
    /\ UNCHANGED <<gr, va, dp, as_graph_json, most_specific_prefix_cache>>
    /\ UNCHANGED propVars

NextAnn == AnnConstruct

SpecAnn == InitAnn /\ [][NextAnn]_vars

\* C23: a path of more than one element without a next hop is rejected with
\* an error, a one-element path without a next hop gets its single element,
\* and a next hop that is given is stored as given
C23_NextHopContract ==
    call.pc = "done" =>
       /\ (Len(call.as_path) > 1 /\ call.next_hop_asn = NotGiven)
             => IsRaised(call.result)
       /\ (Len(call.as_path) = 1 /\ call.next_hop_asn = NotGiven)
             => /\ ~IsRaised(call.result)
                /\ call.result.next_hop_asn = call.as_path[1]
       /\ call.next_hop_asn # NotGiven
             => /\ ~IsRaised(call.result)
                /\ call.result.next_hop_asn = call.next_hop_asn[1]

-----------------------------------------------------------------------------
(* Policy extensions called on drawn inputs: ASPA, Path-End, edge filter *)

\* as_path[::-1]
Reverse(as_path) == [i \in 1..Len(as_path) |-> as_path[Len(as_path) + 1 - i]]

LeastOf(S) == CHOOSE m \in S : \A x \in S : m <= x

\* mutant of _provider_check: adoption is not looked at
ASPA_provider_check_IgnoresAdoption(g, S, asn1, asn2) ==
    ~(asn1 \in DOMAIN g /\ asn2 \notin g[asn1].provider_asns)

\* ASPA._provider_check: FALSE (Not Provider+) when asn1 is in the graph,
\* adopts ASPA and does not list asn2 as a provider
ASPA_provider_check(g, S, asn1, asn2) ==
    ~(/\ asn1 \in DOMAIN g
      /\ "ASPA" \in S[asn1]
      /\ asn2 \notin g[asn1].provider_asns)

\* ASPA._get_max_up_ramp_length: the loop over range(len(reversed_path) - 1)
\* returns i + 1 at the first i that fails the provider check
ASPA_get_max_up_ramp_length(g, S, ann) ==
    LET reversed_path == Reverse(ann.as_path)
        failing == {i \in 0..(Len(reversed_path) - 2) :
                      ~ASPA_provider_check(g, S, reversed_path[i + 1], reversed_path[i + 2])}
    IN  IF failing = {} THEN Len(ann.as_path) ELSE LeastOf(failing) + 1

\* ASPA._get_max_down_ramp_length: the loop over range(len - 1, 0, -1) returns
\* len - (i + 1) + 1 at the first (highest) i that fails the provider check
ASPA_get_max_down_ramp_length(g, S, ann) ==
    LET reversed_path == Reverse(ann.as_path)
        failing == {i \in 1..(Len(reversed_path) - 1) :
                      ~ASPA_provider_check(g, S, reversed_path[i + 1], reversed_path[i])}
    IN  IF failing = {} THEN Len(ann.as_path)
        ELSE Len(reversed_path) - (MaxOf(failing) + 1) + 1

\* ASPA._next_hop_valid
ASPA_next_hop_valid(ann, ixp) == ann.next_hop_asn = ann.as_path[1] \/ ixp

\* ASPA._upstream_check
ASPA_upstream_check(g, S, ann) ==
    IF Len(ann.as_path) = 1 THEN TRUE
    ELSE ~(ASPA_get_max_up_ramp_length(g, S, ann) < Len(ann.as_path))

\* ASPA._downstream_check
ASPA_downstream_check(g, S, ann) ==
    ~(ASPA_get_max_up_ramp_length(g, S, ann) + ASPA_get_max_down_ramp_length(g, S, ann)
        < Len(ann.as_path))

\* ASPA.valid_ann at a receiver with attribute ixp, for from_rel one of
\* PROVIDERS, CUSTOMERS, PEERS
ASPA_valid_ann(g, S, ixp, ann, from_rel) ==
    IF ~ASPA_next_hop_valid(ann, ixp) THEN FALSE
    ELSE IF from_rel = PROVIDERS THEN ASPA_downstream_check(g, S, ann)
    ELSE ASPA_upstream_check(g, S, ann)

\* graph_data of ex_config_023
Ex023Graph ==
    (1 :> ASInfo({}, {}, {ATTACKER, 2})
     @@ 2 :> ASInfo({}, {1}, {ATTACKER})
     @@ 3 :> ASInfo({}, {}, {VICTIM})
     @@ VICTIM :> ASInfo({}, {3}, {})
     @@ ATTACKER :> ASInfo({}, {1, 2}, {}))

\* longest as_path drawn for a policy extension
MaxExtPathLen == 3

\* the ASNs of drawn paths
ExtASNs == {1, 2, VICTIM, ATTACKER}

\* the settings drawn for ASPA: any of AS 1, AS 2 and the victim adopt
AspaSettings ==
    {[a \in DOMAIN Ex023Graph |-> IF a \in adopters THEN {"ASPA"} ELSE {}] :
        adopters \in SUBSET {1, 2, VICTIM}}

ExtCall(fn, g, S, asn, ixp, ann, from_rel) ==
    [pc |-> "ready", fn |-> fn, g |-> g, S |-> S, roas |-> {}, asn |-> asn,
     ixp |-> ixp, ann |-> ann, from_rel |-> from_rel, result |-> FALSE]

\* calls of ASPA.valid_ann at AS 2 of ex_config_023
AspaCalls ==
    {ExtCall("ASPA", Ex023Graph, S, 2, ixp,
             Announcement(PREFIX, as_path, next_hop_asn, ORIGIN), from_rel) :
        S \in AspaSettings, ixp \in BOOLEAN,
        as_path \in SeqsOf(ExtASNs, 1, MaxExtPathLen),
        next_hop_asn \in {1, ATTACKER},
        from_rel \in {CUSTOMERS, PEERS, PROVIDERS}}

\* graph_data of ex_config_018, cut down to the victim, the attacker and their
\* providers 1, 2 and 4
Ex018Graph ==
    (1 :> ASInfo({}, {}, {ATTACKER})
     @@ 2 :> ASInfo({}, {}, {ATTACKER, VICTIM})
     @@ 4 :> ASInfo({}, {}, {VICTIM})
     @@ VICTIM :> ASInfo({}, {2, 4}, {})
     @@ ATTACKER :> ASInfo({}, {1, 2}, {}))

\* an ASN that is in no graph
AbsentASN == 7

\* mutant of PathEnd.valid_ann: the hop before the origin is not looked at
PathEnd_valid_ann_RovOnly(g, S, R, ann) ==
    ROV_valid_ann(R, ann)

\* PathEnd.valid_ann
PathEnd_valid_ann(g, S, R, ann) ==
    IF ~ROV_valid_ann(R, ann) THEN FALSE
    ELSE LET origin_asn == origin(ann)
         IN  IF /\ origin_asn \in DOMAIN g
                /\ "PATH_END" \in S[origin_asn]
                /\ Len(ann.as_path) > 1
             THEN \E neighbor_asn \in neighbor_asns(g, origin_asn) :
                     neighbor_asn = ann.as_path[Len(ann.as_path) - 1]
             ELSE TRUE

\* calls of PathEnd.valid_ann at the providers of ex_config_018: any of AS 1 and
\* the victim adopt, with and without the scenario's ROA
PathEndCalls ==
    {[ExtCall("PathEnd", Ex018Graph,
              [a \in DOMAIN Ex018Graph |-> IF a \in adopters THEN {"PATH_END"} ELSE {}],
              asn, FALSE, Announcement(prefix, as_path, as_path[1], ORIGIN), from_rel)
         EXCEPT !.roas = R] :
        adopters \in SUBSET {1, VICTIM}, R \in {{}, ScenarioROAs},
        asn \in {1, 2, 4}, prefix \in Prefixes,
        as_path \in SeqsOf(ExtASNs \cup {AbsentASN}, 1, MaxExtPathLen),
        from_rel \in {CUSTOMERS}}

\* AS.stub
stub(g, asn) == Cardinality(neighbor_asns(g, asn)) = 1

\* AS.multihomed
multihomed(g, asn) ==
    /\ Cardinality(g[asn].customer_asns) = 0
    /\ Cardinality(g[asn].peer_asns) + Cardinality(g[asn].provider_asns) > 1

\* mutant of EdgeFilter.valid_ann: the neighbor is looked up by the last ASN
EdgeFilter_valid_ann_ByOrigin(g, asn, ann) ==
    LET origin_asn == ann.as_path[Len(ann.as_path)]
    IN  IF origin_asn \in neighbor_asns(g, asn)
        THEN ~(/\ stub(g, origin_asn) \/ multihomed(g, origin_asn)
               /\ Elems(ann.as_path) # {origin_asn})
        ELSE TRUE

\* EdgeFilter.valid_ann; its origin_asn is as_path[0]
EdgeFilter_valid_ann(g, asn, ann) ==
    LET origin_asn == ann.as_path[1]
    IN  IF origin_asn \in neighbor_asns(g, asn)
        THEN ~(/\ stub(g, origin_asn) \/ multihomed(g, origin_asn)
               /\ Elems(ann.as_path) # {origin_asn})
        ELSE TRUE

\* the graph of ex_config_018 as cut down, and the same with the attacker
\* single-homed at AS 1
EdgeGraphs ==
    {Ex018Graph,
     [Ex018Graph EXCEPT ![ATTACKER] = ASInfo({}, {1}, {}),
                        ![2] = ASInfo({}, {}, {VICTIM})]}

\* calls of EdgeFilter.valid_ann at the providers 1 and 2
EdgeFilterCalls ==
    {ExtCall("EdgeFilter", g, [a \in DOMAIN g |-> {"AS_PATH_EDGE_FILTER"}], asn, FALSE,
             Announcement(prefix, as_path, as_path[1], ORIGIN), from_rel) :
        g \in EdgeGraphs, asn \in {1, 2}, prefix \in Prefixes,
        as_path \in SeqsOf(ExtASNs \cup {AbsentASN}, 1, MaxExtPathLen),
        from_rel \in {CUSTOMERS, PEERS, PROVIDERS}}

InitExt ==
    /\ TrialAtRest
    /\ gr = Idle
    /\ va = Idle
    /\ dp = Idle
    /\ as_graph_json = Idle
    /\ call \in AspaCalls \cup PathEndCalls \cup EdgeFilterCalls
    /\ most_specific_prefix_cache = Idle

ExtASPA ==
    /\ call.pc = "ready"
    /\ call.fn = "ASPA"
    /\ call' = [call EXCEPT
                  !.pc = "done",
                  !.result = ASPA_valid_ann(call.g, call.S, call.ixp, call.ann,
                                            call.from_rel)]
    /\ UNCHANGED <<gr, va, dp, as_graph_json, most_specific_prefix_cache>>
    /\ UNCHANGED propVars

ExtPathEnd ==
    /\ call.pc = "ready"
    /\ call.fn = "PathEnd"
    /\ call' = [call EXCEPT
                  !.pc = "done",
                  !.result = PathEnd_valid_ann(call.g, call.S, call.roas, call.ann)]
    /\ UNCHANGED <<gr, va, dp, as_graph_json, most_specific_prefix_cache>>
    /\ UNCHANGED propVars

ExtEdgeFilter ==
    /\ call.pc = "ready"
    /\ call.fn = "EdgeFilter"
    /\ call' = [call EXCEPT
                  !.pc = "done",
                  !.result = EdgeFilter_valid_ann(call.g, call.asn, call.ann)]
    /\ UNCHANGED <<gr, va, dp, as_graph_json, most_specific_prefix_cache>>
    /\ UNCHANGED propVars

NextExt ==
    \/ ExtASPA
    \/ ExtPathEnd
    \/ ExtEdgeFilter

SpecExt == InitExt /\ [][NextExt]_vars

\* the hop (a, b) is Not Provider+: a adopts ASPA and b is not among its providers
NotProviderPlus(a, b) ==
    /\ a \in DOMAIN call.g
    /\ "ASPA" \in call.S[a]
    /\ b \notin call.g[a].provider_asns

\* max_up_ramp of the draft: on the path A(1) = origin .. A(N), the least I
\* with (A(I), A(I+1)) Not Provider+, or N
MaxUpRamp ==
    LET A == Reverse(call.ann.as_path)
        Is == {I \in 1..(Len(A) - 1) : NotProviderPlus(A[I], A[I + 1])}
    IN  IF Is = {} THEN Len(A) ELSE LeastOf(Is)

\* max_down_ramp of the draft: N - J + 1 for the greatest J with
\* (A(J), A(J-1)) Not Provider+, or N
MaxDownRamp ==
    LET A == Reverse(call.ann.as_path)
        Js == {J \in 2..Len(A) : NotProviderPlus(A[J], A[J - 1])}
    IN  IF Js = {} THEN Len(A) ELSE Len(A) - MaxOf(Js) + 1

\* rejected by the ramp rule for the relationship of the call
RampInvalid ==
    IF call.from_rel = PROVIDERS
    THEN MaxUpRamp + MaxDownRamp < Len(call.ann.as_path)
    ELSE MaxUpRamp < Len(call.ann.as_path)

\* C24 as stated: ASPA rejects an announcement exactly when the ramp rule of
\* its relationship does
C24_AspaRampRuleOnly ==
    (call.pc = "done" /\ call.fn = "ASPA") => (call.result = ~RampInvalid)

\* C24 amended: ASPA rejects an announcement exactly when the ramp rule of its
\* relationship does or its next hop is not the first ASN of the path at a
\* receiver that is not an IXP; the forged-origin path [ATTACKER, VICTIM] with
\* the victim adopting is rejected from the customer ATTACKER, and the same
\* path is accepted from the provider AS 1
C24_AspaRampRule ==
    (call.pc = "done" /\ call.fn = "ASPA") =>
       /\ call.result = (/\ ~RampInvalid
                         /\ (call.ann.next_hop_asn = call.ann.as_path[1] \/ call.ixp))
       /\ (/\ call.ann.as_path = <<ATTACKER, VICTIM>>
           /\ call.ann.next_hop_asn = ATTACKER
           /\ "ASPA" \in call.S[VICTIM]
           /\ call.from_rel = CUSTOMERS) => ~call.result
       /\ (/\ call.ann.as_path = <<1, ATTACKER, VICTIM>>
           /\ call.ann.next_hop_asn = 1
           /\ "ASPA" \notin call.S[1]
           /\ call.from_rel = PROVIDERS) => call.result

\* C24 witness: with AS 2 and the victim adopting, AS 2 has accepted the path
\* [1, ATTACKER, VICTIM] from its provider AS 1, whose up-ramp ends at the
\* victim
C24_Witness ==
    /\ call.pc = "done"
    /\ call.fn = "ASPA"
    /\ call.ann.as_path = <<1, ATTACKER, VICTIM>>
    /\ call.ann.next_hop_asn = 1
    /\ call.from_rel = PROVIDERS
    /\ ~call.ixp
    /\ \A a \in DOMAIN call.g : ("ASPA" \in call.S[a]) <=> (a \in {2, VICTIM})
    /\ MaxUpRamp = 1
    /\ call.result

\* the call at hand is a finished call of PathEnd.valid_ann
PathEndDone == call.pc = "done" /\ call.fn = "PathEnd"

\* the hop before the origin, where the path has one
BeforeOrigin(as_path) == as_path[Len(as_path) - 1]

\* C27: Path-End rejects an announcement exactly when it is ROV-invalid, or its
\* origin adopts Path-End, the path has more than one element and as_path[-2]
\* is not a neighbor of the origin; so a path whose hop before the origin is a
\* true neighbor of the origin, as a leak replays it, is accepted at every
\* receiver unless it is ROV-invalid
C27_PathEndLastHopOnly ==
    PathEndDone =>
       LET as_path == call.ann.as_path
           o == as_path[Len(as_path)]
           adopts == o \in DOMAIN call.g /\ "PATH_END" \in call.S[o]
       IN  /\ ~call.result <=>
                \/ is_invalid(get_roa_outcome(call.roas, call.ann.prefix, o)[1])
                \/ /\ adopts
                   /\ Len(as_path) > 1
                   /\ BeforeOrigin(as_path) \notin neighbor_asns(call.g, o)
           /\ (/\ Len(as_path) > 1
               /\ o \in DOMAIN call.g
               /\ BeforeOrigin(as_path) \in neighbor_asns(call.g, o)
               /\ ~is_invalid(get_roa_outcome(call.roas, call.ann.prefix, o)[1]))
                 => call.result

\* C27 witness: the attacker's leak of its route through AS 2 has passed
\* Path-End at the adopter AS 1, the victim adopting and its ROA installed
C27_Witness ==
    /\ PathEndDone
    /\ call.asn = 1
    /\ call.ann.prefix = PREFIX
    /\ call.ann.as_path = <<ATTACKER, 2, VICTIM>>
    /\ call.roas = ScenarioROAs
    /\ "PATH_END" \in call.S[VICTIM]
    /\ "PATH_END" \in call.S[1]
    /\ call.result

\* the call at hand is a finished call of EdgeFilter.valid_ann
EdgeFilterDone == call.pc = "done" /\ call.fn = "EdgeFilter"

\* the neighbors of the receiver that are stubs or multihomed
EdgeNeighbors ==
    {n \in neighbor_asns(call.g, call.asn) : stub(call.g, n) \/ multihomed(call.g, n)}

\* C28 as stated: when the origin (last element) is a stub or multihomed
\* neighbor of the receiver the announcement is accepted only if every ASN of
\* the path is that origin, and no other announcement is rejected
C28_EdgeFilterByOrigin ==
    EdgeFilterDone =>
       LET as_path == call.ann.as_path
           o == as_path[Len(as_path)]
       IN  IF o \in EdgeNeighbors
           THEN call.result => Elems(as_path) = {o}
           ELSE call.result

\* C28 amended: the neighbor is the first element of the path, the AS the
\* announcement came from; the announcement is rejected exactly when that AS is
\* a stub or multihomed neighbor of the receiver and the path holds another ASN
C28_EdgeFilterByFirstASN ==
    EdgeFilterDone =>
       LET as_path == call.ann.as_path
       IN  ~call.result <=>
              /\ as_path[1] \in EdgeNeighbors
              /\ Elems(as_path) # {as_path[1]}

\* C28 witness: AS 1 has rejected the path (attacker, victim) received from its
\* multihomed customer, whose origin is not a neighbor of AS 1
C28_Witness ==
    /\ EdgeFilterDone
    /\ call.asn = 1
    /\ call.g = Ex018Graph
    /\ call.ann.as_path = <<ATTACKER, VICTIM>>
    /\ ~call.result

-----------------------------------------------------------------------------
(* SpecLeak: AccidentalRouteLeak on a chain VICTIM, ATTACKER, AS 1 *)

\* graph_data of ex_config_031 with the two links drawn: attacker_is names the
\* class the attacker is in for the victim, as1_is the class AS 1 is in for
\* the attacker (both PEERS in ex_config_031)
LeakChain(attacker_is, as1_is) ==
    (VICTIM :> ASInfo(IF attacker_is = PEERS THEN {ATTACKER} ELSE {},
                      IF attacker_is = PROVIDERS THEN {ATTACKER} ELSE {},
                      IF attacker_is = CUSTOMERS THEN {ATTACKER} ELSE {})
     @@ ATTACKER :> ASInfo((IF attacker_is = PEERS THEN {VICTIM} ELSE {})
                              \cup (IF as1_is = PEERS THEN {1} ELSE {}),
                           (IF attacker_is = CUSTOMERS THEN {VICTIM} ELSE {})
                              \cup (IF as1_is = PROVIDERS THEN {1} ELSE {}),
                           (IF attacker_is = PROVIDERS THEN {VICTIM} ELSE {})
                              \cup (IF as1_is = CUSTOMERS THEN {1} ELSE {}))
     @@ 1 :> ASInfo(IF as1_is = PEERS THEN {ATTACKER} ELSE {},
                    IF as1_is = CUSTOMERS THEN {ATTACKER} ELSE {},
                    IF as1_is = PROVIDERS THEN {ATTACKER} ELSE {}))

LeakASNs == {1, VICTIM, ATTACKER}

\* the chain of ex_config_031 and its settings
Ex031Graph == LeakChain(PEERS, PEERS)
Ex031Settings ==
    [a \in LeakASNs |-> IF a \in {1, VICTIM} THEN {"ONLY_TO_CUSTOMERS"} ELSE {}]

InitLeak ==
    /\ \E attacker_is \in {PEERS, PROVIDERS, CUSTOMERS} :
          \E as1_is \in {PEERS, PROVIDERS, CUSTOMERS} :
             as_graph = LeakChain(attacker_is, as1_is)
    /\ \E adopters \in SUBSET LeakASNs :
          settings = [a \in LeakASNs |->
                         IF a \in adopters THEN {"ONLY_TO_CUSTOMERS"} ELSE {}]
    /\ trial = 0
    /\ roas = {}
    /\ local_rib = [a \in LeakASNs |-> NoPrefixAnn]
    /\ recv_q = [a \in LeakASNs |-> EmptyQueue]
    /\ sweep = "seed"
    /\ rank = 0
    /\ stage = "send"
    /\ pending = {}
    /\ round = 0
    /\ err = "none"
    /\ cmpLog = {}
    /\ rejLog = {}
    /\ gr = Idle
    /\ as_graph_json = Idle
    /\ call = Idle
    /\ most_specific_prefix_cache = Idle
    /\ va = Idle
    /\ dp = Idle

\* AccidentalRouteLeak._get_seed_asn_ann_dict: the legitimate origin's prefix
LeakSeedAnn == Announcement(PREFIX, <<VICTIM>>, VICTIM, ORIGIN)

\* Scenario.setup_engine for propagation_round 0: the seed of the legitimate
\* origin is installed, and the engine starts the first sweep
LeakSetupEngine ==
    /\ sweep = "seed"
    /\ local_rib[VICTIM][PREFIX] = None
    /\ seed_ann(VICTIM, LeakSeedAnn)

LeakStartPropagation ==
    /\ local_rib[VICTIM][PREFIX] # None
    /\ StartPropagation

\* scenario_config.propagation_rounds of the leak runs: one round more than
\* min_propagation_rounds, so that the hook is also called with round 2
LeakPropagationRounds == 3

\* the hook with the copies keeping the relationship the attacker learned
AccidentalRouteLeak_post_propagation_hook_KeepsRelationship ==
    /\ err = "none"
    /\ sweep = "round_done"
    /\ IF round = 0
       THEN /\ local_rib' =
                  [a \in DOMAIN as_graph |->
                      [p \in Prefixes |->
                          IF a = VICTIM /\ p = PREFIX THEN LeakSeedAnn
                          ELSE IF a = ATTACKER THEN local_rib[ATTACKER][p]
                          ELSE None]]
            /\ recv_q' = [a \in DOMAIN as_graph |-> clear(a).recv_q]
            /\ sweep' = "hook_done"
            /\ cmpLog' = {}
            /\ rejLog' = {}
            /\ UNCHANGED err
       ELSE IF round > 1
       THEN /\ err' = "NotImplementedError"
            /\ UNCHANGED <<local_rib, recv_q, sweep, cmpLog, rejLog>>
       ELSE /\ sweep' = "hook_done"
            /\ UNCHANGED <<local_rib, recv_q, err, cmpLog, rejLog>>
    /\ UNCHANGED <<as_graph, trial, settings, roas, rank, stage, pending, round>>
    /\ UNCHANGED <<gr, va, dp, as_graph_json, call, most_specific_prefix_cache>>

\* AccidentalRouteLeak.post_propagation_hook. After propagation_round 0 every
\* entry of the attacker's local RIB is added to the seeds with
\* recv_relationship ORIGIN, then setup_engine clears every policy and seeds
\* again; after propagation_round 1 neither branch is taken; after a later
\* round the hook raises NotImplementedError
AccidentalRouteLeak_post_propagation_hook ==
    /\ err = "none"
    /\ sweep = "round_done"
    /\ IF round = 0
       THEN /\ local_rib' =
                  [a \in DOMAIN as_graph |->
                      [p \in Prefixes |->
                          IF a = VICTIM /\ p = PREFIX THEN LeakSeedAnn
                          ELSE IF a = ATTACKER /\ local_rib[ATTACKER][p] # None
                          THEN [local_rib[ATTACKER][p]
                                   EXCEPT !.recv_relationship = ORIGIN]
                          ELSE None]]
            /\ recv_q' = [a \in DOMAIN as_graph |-> clear(a).recv_q]
            /\ sweep' = "hook_done"
            /\ cmpLog' = {}
            /\ rejLog' = {}
            /\ UNCHANGED err
       ELSE IF round > 1
       THEN /\ err' = "NotImplementedError"
            /\ UNCHANGED <<local_rib, recv_q, sweep, cmpLog, rejLog>>
       ELSE /\ sweep' = "hook_done"
            /\ UNCHANGED <<local_rib, recv_q, err, cmpLog, rejLog>>
    /\ UNCHANGED <<as_graph, trial, settings, roas, rank, stage, pending, round>>
    /\ UNCHANGED <<gr, va, dp, as_graph_json, call, most_specific_prefix_cache>>

\* EngineRunner.run: engine.run with the next propagation_round after the hook
LeakNextRound ==
    /\ err = "none"
    /\ sweep = "hook_done"
    /\ round + 1 < LeakPropagationRounds
    /\ round' = round + 1
    /\ sweep' = "up"
    /\ rank' = 0
    /\ stage' = "send"
    /\ pending' = RankASes(as_graph, 0)
    /\ cmpLog' = {}
    /\ rejLog' = {}
    /\ UNCHANGED <<as_graph, trial, settings, roas, local_rib, recv_q, err>>
    /\ UNCHANGED <<gr, va, dp, as_graph_json, call, most_specific_prefix_cache>>

NextLeak ==
    \/ LeakSetupEngine
    \/ LeakStartPropagation
    \/ \E asn \in DOMAIN as_graph : propagate_to_providers(asn)
    \/ \E asn \in DOMAIN as_graph : propagate_to_peers(asn)
    \/ \E asn \in DOMAIN as_graph : propagate_to_customers(asn)
    \/ \E asn \in DOMAIN as_graph : process_incoming_anns(asn)
    \/ EngineAdvance
    \/ AccidentalRouteLeak_post_propagation_hook
    \/ LeakNextRound

SpecLeak == InitLeak /\ [][NextLeak]_vars

\* C26: in the peer chain of ex_config_031 with Only-To-Customers at AS 1 and
\* at the victim, AS 1 never installs a route through the attacker
C26_OtcStopsPeerLeak ==
    (as_graph = Ex031Graph /\ settings = Ex031Settings) =>
        \A p \in Prefixes :
            local_rib[1][p] # None => ATTACKER \notin Elems(local_rib[1][p].as_path)

\* the same with Only-To-Customers at all three ASes
C26_OtcEverywhere ==
    (as_graph = Ex031Graph /\ \A a \in LeakASNs : "ONLY_TO_CUSTOMERS" \in settings[a]) =>
        \A p \in Prefixes :
            local_rib[1][p] # None => ATTACKER \notin Elems(local_rib[1][p].as_path)

\* where the victim is the attacker's provider and stamps the route, the adopting
\* peer AS 1 does reject the leak
C26_StampedLeakRejected ==
    (as_graph = LeakChain(CUSTOMERS, PEERS)
     /\ {"ONLY_TO_CUSTOMERS"} = settings[VICTIM] /\ {"ONLY_TO_CUSTOMERS"} = settings[1]) =>
        \A p \in Prefixes : local_rib[1][p] = None

C26_StampedLeakSeen ==
    /\ as_graph = LeakChain(CUSTOMERS, PEERS)
    /\ \E ann \in rejLog : ann.only_to_customers = VICTIM /\ ann.next_hop_asn = ATTACKER

\* a step of the hook: it is the only action taken at the end of a round
LeakHookStep ==
    /\ sweep = "round_done"
    /\ sweep' = "hook_done" \/ err' # err

\* the victim is a peer or a provider of the attacker, and so is AS 1
LeakFromAbove ==
    /\ VICTIM \in as_graph[ATTACKER].peer_asns \cup as_graph[ATTACKER].provider_asns
    /\ 1 \in as_graph[ATTACKER].peer_asns \cup as_graph[ATTACKER].provider_asns

-----------------------------------------------------------------------------
(* SpecTrivial: one round of plain BGP with the legitimate origin's prefix, *)
(* then the data-plane outcomes                                             *)

\* the graph of the trivial scenario: AS 1 is the provider of the victim and
\* of one other customer
TrivialGraph ==
    (1 :> ASInfo({}, {}, {VICTIM, ATTACKER})
     @@ VICTIM :> ASInfo({}, {1}, {})
     @@ ATTACKER :> ASInfo({}, {1}, {}))

InitTrivial ==
    /\ as_graph \in {TrivialGraph, ExampleGraph}
    /\ settings = [a \in DOMAIN as_graph |-> {}]
    /\ trial = 0
    /\ roas = {}
    /\ local_rib = [a \in DOMAIN as_graph |-> NoPrefixAnn]
    /\ recv_q = [a \in DOMAIN as_graph |-> EmptyQueue]
    /\ sweep = "seed"
    /\ rank = 0
    /\ stage = "send"
    /\ pending = {}
    /\ round = 0
    /\ err = "none"
    /\ cmpLog = {}
    /\ rejLog = {}
    /\ gr = Idle
    /\ as_graph_json = Idle
    /\ call = Idle
    /\ most_specific_prefix_cache = Idle
    /\ va = Idle
    /\ dp = Idle

\* engine.run with propagation_round 0: the legitimate origin's prefix is seeded
TrivialSetupEngine ==
    /\ sweep = "seed"
    /\ local_rib[VICTIM][PREFIX] = None
    /\ seed_ann(VICTIM, Announcement(PREFIX, <<VICTIM>>, VICTIM, ORIGIN))

TrivialStartPropagation ==
    /\ local_rib[VICTIM][PREFIX] # None
    /\ StartPropagation

\* mutant of Traceback: the next hop is not followed
Traceback_NoRecursion(rib, attacker_asns, victim_asns, asn, visited_asns) ==
    LET outcome == _determine_data_plane_outcome(asn, attacker_asns, victim_asns,
                                                 get_most_specific_ann(rib[asn]),
                                                 visited_asns)
    IN  IF outcome = UNDETERMINED THEN DISCONNECTED ELSE outcome

\* store_as_data_plane_outcomes from a start AS whose next hops have no
\* outcome yet: the outcome returned for asn
RECURSIVE Traceback(_, _, _, _, _)
Traceback(rib, attacker_asns, victim_asns, asn, visited_asns) ==
    LET outcome == _determine_data_plane_outcome(asn, attacker_asns, victim_asns,
                                                 get_most_specific_ann(rib[asn]),
                                                 visited_asns)
    IN  IF outcome = UNDETERMINED
        THEN Traceback(rib, attacker_asns, victim_asns,
                       get_most_specific_ann(rib[asn]).next_hop_asn,
                       visited_asns \cup {asn})
        ELSE outcome

\* EngineRunner.run after the last round: get_as_outcomes_for_data_plane_packet
\* with no attacker and the victim as legitimate origin
TrivialOutcomes ==
    /\ err = "none"
    /\ sweep = "round_done"
    /\ dp = Idle
    /\ dp' = [pc |-> "done", attacker_asns |-> {}, victim_asns |-> {VICTIM},
              outcomes |-> [asn \in DOMAIN as_graph |->
                               Traceback(local_rib, {}, {VICTIM}, asn, {})]]
    /\ UNCHANGED <<gr, va, as_graph_json, call, most_specific_prefix_cache>>
    /\ UNCHANGED propVars

NextTrivial ==
    \/ TrivialSetupEngine
    \/ TrivialStartPropagation
    \/ \E asn \in DOMAIN as_graph : propagate_to_providers(asn)
    \/ \E asn \in DOMAIN as_graph : propagate_to_peers(asn)
    \/ \E asn \in DOMAIN as_graph : propagate_to_customers(asn)
    \/ \E asn \in DOMAIN as_graph : process_incoming_anns(asn)
    \/ EngineAdvance
    \/ TrivialOutcomes

SpecTrivial == InitTrivial /\ [][NextTrivial]_vars

C29_WitnessExample ==
    /\ dp.pc = "done"
    /\ as_graph = ExampleGraph
    /\ \A a \in DOMAIN as_graph : local_rib[a][PREFIX] # None

-----------------------------------------------------------------------------
(* SpecRank: one trial of plain BGP on a graph whose ranks come from *)
(* assign_as_propagation_rank with the order of its loop drawn       *)

\* the victim is the customer of AS 1, which peers with AS 2
RankGraph ==
    (VICTIM :> ASInfo({}, {1}, {})
     @@ 1 :> ASInfo({2}, {}, {VICTIM})
     @@ 2 :> ASInfo({1}, {}, {}))

\* the victim is the provider of AS 1, which peers with AS 2
RankGraphDown ==
    (VICTIM :> ASInfo({}, {}, {1})
     @@ 1 :> ASInfo({2}, {VICTIM}, {})
     @@ 2 :> ASInfo({1}, {}, {}))

\* the orders in which the values of as_graph_json["ases"] can be visited
RankOrders ==
    {order \in [1..Cardinality(DOMAIN RankGraph) -> DOMAIN RankGraph] :
        \A i, j \in DOMAIN order : order[i] = order[j] => i = j}

InitRank ==
    /\ as_graph \in {RankGraph, RankGraphDown}
    /\ trial = 0
    /\ settings = [a \in DOMAIN RankGraph |-> {}]
    /\ roas = {}
    /\ local_rib = [a \in DOMAIN RankGraph |-> NoPrefixAnn]
    /\ recv_q = [a \in DOMAIN RankGraph |-> EmptyQueue]
    /\ sweep = "seed"
    /\ rank = 0
    /\ stage = "send"
    /\ pending = {}
    /\ round = 0
    /\ err = "none"
    /\ cmpLog = {}
    /\ rejLog = {}
    /\ gr = Idle
    /\ \E order \in RankOrders :
          as_graph_json =
             [pc |-> "ranked",
              order |-> order,
              propagation_rank |->
                 assign_as_propagation_rank(as_graph, [a \in DOMAIN as_graph |-> -1],
                                            order, 1)]
    /\ call = Idle
    /\ most_specific_prefix_cache = Idle
    /\ va = Idle
    /\ dp = Idle

RankSetupEngine ==
    /\ local_rib[VICTIM][PREFIX] = None
    /\ seed_ann(VICTIM, Announcement(PREFIX, <<VICTIM>>, VICTIM, ORIGIN))

RankStartPropagation ==
    /\ local_rib[VICTIM][PREFIX] # None
    /\ StartPropagation

NextRank ==
    \/ RankSetupEngine
    \/ RankStartPropagation
    \/ \E asn \in DOMAIN as_graph : propagate_to_providers(asn)
    \/ \E asn \in DOMAIN as_graph : propagate_to_peers(asn)
    \/ \E asn \in DOMAIN as_graph : propagate_to_customers(asn)
    \/ \E asn \in DOMAIN as_graph : process_incoming_anns(asn)
    \/ EngineAdvance
    \/ NextRound

SpecRank == InitRank /\ [][NextRank]_vars

\* the relationship class of u that v is in
RelationshipOf(u, v) ==
    IF v \in as_graph[u].customer_asns THEN CUSTOMERS
    ELSE IF v \in as_graph[u].peer_asns THEN PEERS
    ELSE IF v \in as_graph[u].provider_asns THEN PROVIDERS
    ELSE UNKNOWN

\* C36: every local RIB entry that was received (recv_relationship not ORIGIN)
\* has the relationship of its sender next_hop_asn as recv_relationship, and
\* an AS about to drain holds in its queue only announcements of neighbors of
\* the class it drains with
C36_RelationshipOfSender ==
    /\ \A u \in DOMAIN as_graph : \A p \in Prefixes :
          (local_rib[u][p] # None /\ local_rib[u][p].recv_relationship # ORIGIN) =>
              local_rib[u][p].recv_relationship
                  = RelationshipOf(u, local_rib[u][p].next_hop_asn)
    /\ (sweep \in {"up", "peer", "down"} /\ stage = "drain") =>
          \A u \in pending : \A ann \in QueuedAnns(u) :
              RelationshipOf(u, ann.next_hop_asn) = FromRelOf(sweep)

\* the same for the ranks of a loop that reaches every AS before its customers
C36_WithMonotoneRanks ==
    (\A a \in DOMAIN as_graph : RankOfAS(as_graph, a) = PropagationRank(as_graph, a))
        => C36_RelationshipOfSender

\* the route of the customer installed as a peer route, reached in SpecRank
C36_CustomerRouteAsPeerRoute ==
    /\ as_graph = RankGraph
    /\ local_rib[1][PREFIX] # None
    /\ local_rib[1][PREFIX].next_hop_asn = VICTIM
    /\ local_rib[1][PREFIX].recv_relationship = PEERS

\* the ranks are those of a loop that reaches every AS before its customers
MonotoneRanks ==
    \A a \in DOMAIN as_graph : RankOfAS(as_graph, a) = PropagationRank(as_graph, a)

\* C39: in a propagation round after the first of a trial (propagation_round
\* >= 1, same seeds and settings) no step changes the local RIB of any AS, so
\* at the end of the round every local RIB is as the previous round left it
C39_FixpointAfterOneRound ==
    [][(round >= 1 /\ trial' = trial) => local_rib' = local_rib]_vars

\* the same where every provider ranks above its customers
C39_WithMonotoneRanks ==
    [][(MonotoneRanks /\ round >= 1 /\ trial' = trial) => local_rib' = local_rib]_vars

\* AS 1 holds no route at the end of the first round and installs, in the
\* second, the route its provider sent down in the first
C39_InstalledInSecondRound ==
    /\ as_graph = RankGraphDown
    /\ round = 1
    /\ local_rib[1][PREFIX] # None
    /\ local_rib[1][PREFIX].as_path = <<1, VICTIM>>

\* C40: a process_incoming_anns that returns leaves the queue of its AS empty
\* for every prefix, and at the end of every propagation round the queue of
\* every AS is empty
C40_NoPendingMessages ==
    /\ [][\A a \in DOMAIN as_graph :
             (stage = "drain" /\ a \in pending /\ a \notin pending' /\ err' = "none")
                => recv_q'[a] = EmptyQueue
         ]_vars
    /\ []((sweep = "round_done" /\ err = "none") =>
             \A a \in DOMAIN as_graph : recv_q[a] = EmptyQueue)

\* the first half alone: the queue of the AS that has drained is empty
C40_DrainEmptiesQueue ==
    [][\A a \in DOMAIN as_graph :
          (stage = "drain" /\ a \in pending /\ a \notin pending' /\ err' = "none")
             => recv_q'[a] = EmptyQueue
      ]_vars

\* the second half where every provider ranks above its customers
C40_WithMonotoneRanks ==
    (MonotoneRanks /\ sweep = "round_done" /\ err = "none") =>
        \A a \in DOMAIN as_graph : recv_q[a] = EmptyQueue

-----------------------------------------------------------------------------
(* SpecCache: Policy.get_most_specific_ann at two policies that share the   *)
(* class-level cache, between changes of their local RIBs                   *)

\* the literal in `len(self.local_rib) < 10`
MaxCachedRibLen == 10

\* the literal in `len(self.most_specific_prefix_cache) > 10`
MaxCacheLen == 10

\* destination addresses: inside SUBPREFIX, inside PREFIX only, outside both
DestIPAddrs == {"1.2.3.4", "1.2.0.1", "9.9.9.9"}

\* Prefix.supernet_of for the two prefixes and the three destinations
supernet_of(prefix, dest_ip_addr) ==
    \/ prefix = PREFIX /\ dest_ip_addr \in {"1.2.3.4", "1.2.0.1"}
    \/ prefix = SUBPREFIX /\ dest_ip_addr = "1.2.3.4"

\* the two policies that look up routes
CacheASNs == {1, 2}

\* the first element of `sorted(matching, key=prefixlen, reverse=True)`, or
\* "None" when nothing matches
LongestMatch(keys, dest_ip_addr) ==
    LET matching_prefixes == {p \in Elems(keys) : supernet_of(p, dest_ip_addr)}
    IN  IF matching_prefixes = {} THEN "None"
        ELSE CHOOSE p \in matching_prefixes :
                \A q \in matching_prefixes : PrefixLen(q) <= PrefixLen(p)

\* dict.get on the cache: "None" for a missing key
CacheGet(cache, key) == IF key \in DOMAIN cache THEN cache[key] ELSE "None"

\* Policy.get_most_specific_ann at a policy whose local_rib has the keys `keys`
\* in insertion order: the cache after the call, the announcement returned, and
\* the exception raised.  `self.most_specific_prefix_cache.pop()` is a dict.pop
\* without a key, which raises TypeError.
Policy_get_most_specific_ann(cache, rib, keys, dest_ip_addr) ==
    LET key == <<dest_ip_addr, keys>>
        cached == IF Len(keys) < MaxCachedRibLen THEN CacheGet(cache, key) ELSE "None"
        most_specific_prefix ==
            IF cached = "None" THEN LongestMatch(keys, dest_ip_addr) ELSE cached
        stored == IF Len(keys) < MaxCachedRibLen
                  THEN [k \in DOMAIN cache \cup {key} |->
                           IF k = key THEN most_specific_prefix ELSE cache[k]]
                  ELSE cache
        pops == Len(keys) < MaxCachedRibLen /\ Cardinality(DOMAIN stored) > MaxCacheLen
    IN  [cache |-> stored,
         from_cache |-> cached # "None",
         raised |-> IF pops THEN "TypeError" ELSE "none",
         result |-> IF pops \/ most_specific_prefix = "None" THEN None
                    ELSE rib[most_specific_prefix]]

\* the routes a policy learns from the other one while lookups go on
CacheAnns(asn) ==
    {Announcement(p, <<asn, 3 - asn>>, 3 - asn, CUSTOMERS) : p \in Prefixes}

\* the routes the policies are seeded with: AS 1 its PREFIX, AS 2 either prefix
CacheSeeds(asn) ==
    {Announcement(p, <<asn>>, asn, ORIGIN) :
        p \in (IF asn = 1 THEN {PREFIX} ELSE Prefixes)}

\* no lookup has been made since the RIBs last changed
NoLookup(keys) ==
    [pc |-> "ready", keys |-> keys, asn |-> 0, dest_ip_addr |-> "", result |-> None,
     from_cache |-> FALSE]

InitCache ==
    /\ as_graph = ExampleGraph
    /\ trial = 0
    /\ settings = [a \in DOMAIN ExampleGraph |-> {}]
    /\ roas = {}
    /\ \E seed \in [CacheASNs -> UNION {CacheSeeds(a) : a \in CacheASNs}] :
          /\ \A a \in CacheASNs : seed[a] \in CacheSeeds(a)
          /\ local_rib = [a \in DOMAIN ExampleGraph |->
                             IF a \in CacheASNs
                             THEN [NoPrefixAnn EXCEPT ![seed[a].prefix] = seed[a]]
                             ELSE NoPrefixAnn]
          /\ call = NoLookup([a \in CacheASNs |-> <<seed[a].prefix>>])
    /\ recv_q = [a \in DOMAIN ExampleGraph |-> EmptyQueue]
    /\ sweep = "idle"
    /\ rank = 0
    /\ stage = "send"
    /\ pending = {}
    /\ round = 0
    /\ err = "none"
    /\ cmpLog = {}
    /\ rejLog = {}
    /\ gr = Idle
    /\ va = Idle
    /\ dp = Idle
    /\ as_graph_json = Idle
    /\ most_specific_prefix_cache = <<>>

\* `self.local_rib[ann.prefix] = ann`: a new key goes to the end of the dict, a
\* known key keeps its place
CacheInstall(asn, ann) ==
    /\ call.pc # "raised"
    /\ local_rib[asn][ann.prefix] # ann
    /\ local_rib' = [local_rib EXCEPT ![asn][ann.prefix] = ann]
    /\ call' = NoLookup([call.keys EXCEPT ![asn] =
                            IF ann.prefix \in Elems(@) THEN @ ELSE Append(@, ann.prefix)])
    /\ UNCHANGED <<as_graph, trial, settings, roas, recv_q, sweep, rank, stage, pending,
                   round, err, cmpLog, rejLog>>
    /\ UNCHANGED <<gr, va, dp, as_graph_json, most_specific_prefix_cache>>

\* one call of get_most_specific_ann at the policy of asn
CacheLookup(asn, dest_ip_addr) ==
    LET r == Policy_get_most_specific_ann(most_specific_prefix_cache, local_rib[asn],
                                          call.keys[asn], dest_ip_addr)
    IN  /\ call.pc # "raised"
        /\ most_specific_prefix_cache' = r.cache
        /\ call' = [pc |-> IF r.raised = "none" THEN "returned" ELSE "raised",
                    keys |-> call.keys, asn |-> asn, dest_ip_addr |-> dest_ip_addr,
                    result |-> r.result, from_cache |-> r.from_cache]
        /\ UNCHANGED <<gr, va, dp, as_graph_json>>
        /\ UNCHANGED propVars

NextCache ==
    \/ \E asn \in CacheASNs : \E ann \in CacheAnns(asn) : CacheInstall(asn, ann)
    \/ \E asn \in CacheASNs : \E dest_ip_addr \in DestIPAddrs :
          CacheLookup(asn, dest_ip_addr)

SpecCache == InitCache /\ [][NextCache]_vars

\* the covering prefix of greatest length in the RIB of asn, computed from the
\* RIB alone
MostSpecificAnn(rib, dest_ip_addr) ==
    LET covering == {p \in Prefixes : rib[p] # None /\ supernet_of(p, dest_ip_addr)}
    IN  IF covering = {} THEN None
        ELSE rib[CHOOSE p \in covering : \A q \in covering : PrefixLen(q) <= PrefixLen(p)]

\* C31: every call of get_most_specific_ann answers with the announcement of
\* the longest covering prefix of the caller's RIB, or with none when no prefix
\* covers the destination, whatever lookups and RIB changes came before
C31_LookupAnswers ==
    call.pc # "ready" =>
        /\ call.pc = "returned"
        /\ call.result = MostSpecificAnn(local_rib[call.asn], call.dest_ip_addr)

\* the same for the calls that return: the cached answer is the direct one
C31_ReturnedAnswerIsDirect ==
    call.pc = "returned" =>
        call.result = MostSpecificAnn(local_rib[call.asn], call.dest_ip_addr)

\* a call at AS 2 has answered from the cache with AS 2's own announcement,
\* both policies holding the same prefixes in the same order
C31_SharedEntryUsed ==
    /\ call.pc = "returned"
    /\ call.from_cache
    /\ call.asn = 2
    /\ call.result # None
    /\ call.result.prefix = SUBPREFIX
    /\ call.result.as_path[1] = 2
    /\ call.keys[1] = call.keys[2]

\* C32: the cache never holds more than 10 entries and no call fails
C32_CacheBounded ==
    /\ Cardinality(DOMAIN most_specific_prefix_cache) <= MaxCacheLen
    /\ call.pc # "raised"

=============================================================================
